---- MODULE Spec2Model ----
(***************************************************************************)
(* Ingestion / query core of the intraday tick visualizer server:          *)
(* fetchStockData, batchFetchStocks, getHistoricalData, getChartData and   *)
(* getLatestPrices over the stock_ticks table.                             *)
(*                                                                         *)
(* Conventions of the model                                                *)
(*  - a Date is a number of milliseconds; the provider reports epoch       *)
(*    seconds and every handler converts with `* 1000`;                    *)
(*  - prices are fixed-point numbers counted in 1/10000, the scale of the  *)
(*    numeric(12,4) columns, so toString / numeric / parseFloat keep them; *)
(*  - the interval column holds the value the column type makes of the     *)
(*    literal it is given (pgIntervalIn) and reads back as that value.     *)
(***************************************************************************)
EXTENDS Integers, Sequences, FiniteSets, TLC

VARIABLES store, nextId, clock, op, inp, resp, out, err, calls, queries, pre, procs,
          upserted, log

vars ==
  <<store, nextId, clock, op, inp, resp, out, err, calls, queries, pre, procs,
    upserted, log>>

(***************************************************************************)
(* Bounds of the model                                                     *)
(***************************************************************************)
\* number of store-changing calls in one behaviour
MaxCalls == 2
\* number of upsert runs started in one concurrent behaviour
MaxRuns == 2

(***************************************************************************)
(* Fixed enumerations (schema)                                             *)
(***************************************************************************)
stockSymbolSchema == <<"META", "AAPL", "AMZN", "GOOG", "MSFT", "NVDA">>

SYMBOLS == {stockSymbolSchema[i] : i \in 1..Len(stockSymbolSchema)}

intervalSchema ==
  {"1m", "2m", "5m", "15m", "30m", "60m", "90m", "1h", "1d", "5d", "1wk", "1mo", "3mo"}

\* symbols, intervals, seconds and price versions the model's callers and
\* provider draw from
ModelSymbols == {"AAPL", "META"}
ModelIntervals == {"1m", "1h"}
Seconds == {1, 2}
Versions == {1, 2}
NoValue == "none"

(***************************************************************************)
(* Interval translation tables                                             *)
(***************************************************************************)
\* a table that takes an hour and a half for an hour
convertIntervalToPostgresShortHour(interval) ==
  CASE interval = "1m"  -> "00:01:00"
    [] interval = "2m"  -> "00:02:00"
    [] interval = "5m"  -> "00:05:00"
    [] interval = "15m" -> "00:15:00"
    [] interval = "30m" -> "00:30:00"
    [] interval = "60m" -> "01:00:00"
    [] interval = "90m" -> "01:00:00"
    [] interval = "1h"  -> "01:00:00"
    [] interval = "1d"  -> "1 day"
    [] interval = "5d"  -> "5 days"
    [] interval = "1wk" -> "7 days"
    [] interval = "1mo" -> "1 month"
    [] interval = "3mo" -> "3 months"
    [] OTHER -> interval

\* get_historical_data.ts: logical token -> storage literal
convertIntervalToPostgres(interval) ==
  CASE interval = "1m"  -> "00:01:00"
    [] interval = "2m"  -> "00:02:00"
    [] interval = "5m"  -> "00:05:00"
    [] interval = "15m" -> "00:15:00"
    [] interval = "30m" -> "00:30:00"
    [] interval = "60m" -> "01:00:00"
    [] interval = "90m" -> "01:30:00"
    [] interval = "1h"  -> "01:00:00"
    [] interval = "1d"  -> "1 day"
    [] interval = "5d"  -> "5 days"
    [] interval = "1wk" -> "7 days"
    [] interval = "1mo" -> "1 month"
    [] interval = "3mo" -> "3 months"
    [] OTHER -> interval

\* get_historical_data.ts: storage value -> logical token
convertIntervalFromPostgres(pgInterval) ==
  CASE pgInterval = "00:01:00" -> "1m"
    [] pgInterval = "00:02:00" -> "2m"
    [] pgInterval = "00:05:00" -> "5m"
    [] pgInterval = "00:15:00" -> "15m"
    [] pgInterval = "00:30:00" -> "30m"
    [] pgInterval = "01:00:00" -> "1h"
    [] pgInterval = "01:30:00" -> "90m"
    [] pgInterval = "1 day"    -> "1d"
    [] pgInterval = "5 days"   -> "5d"
    [] pgInterval = "7 days"   -> "1wk"
    [] pgInterval = "1 month"  -> "1mo"
    [] pgInterval = "3 months" -> "3mo"
    [] OTHER -> pgInterval

\* get_latest_prices.ts: storage value -> logical token; "none" where the
\* table has no entry (the callers supply the fallback with `||`)
intervalMapping(dbInterval) ==
  CASE dbInterval = "00:01:00" -> "1m"
    [] dbInterval = "00:02:00" -> "2m"
    [] dbInterval = "00:05:00" -> "5m"
    [] dbInterval = "00:15:00" -> "15m"
    [] dbInterval = "00:30:00" -> "30m"
    [] dbInterval = "01:00:00" -> "1h"
    [] dbInterval = "01:30:00" -> "90m"
    [] dbInterval = "1 day"    -> "1d"
    [] dbInterval = "5 days"   -> "5d"
    [] dbInterval = "7 days"   -> "1wk"
    [] dbInterval = "1 mon"    -> "1mo"
    [] dbInterval = "3 mons"   -> "3mo"
    [] OTHER -> NoValue

\* get_latest_prices.ts: logical token -> literal written to the store; the
\* record has an entry for each of the thirteen tokens and is read without a
\* fallback, so any other key gives undefined ("none")
reverseIntervalMapping(interval) ==
  CASE interval = "60m" -> "1h"
    [] interval \in {"1m", "2m", "5m", "15m", "30m", "90m", "1h", "1d", "5d", "1wk",
                     "1mo", "3mo"} -> interval
    [] OTHER -> NoValue

\* batch_fetch_stocks: storage value -> logical token
normalizeInterval(dbInterval) ==
  CASE dbInterval = "00:01:00" -> "1m"
    [] dbInterval = "00:02:00" -> "2m"
    [] dbInterval = "00:05:00" -> "5m"
    [] dbInterval = "00:15:00" -> "15m"
    [] dbInterval = "00:30:00" -> "30m"
    [] dbInterval = "01:00:00" -> "60m"
    [] dbInterval = "01:30:00" -> "90m"
    [] dbInterval = "1 day"    -> "1d"
    [] dbInterval = "5 days"   -> "5d"
    [] dbInterval = "7 days"   -> "1wk"
    [] dbInterval = "1 mon"    -> "1mo"
    [] dbInterval = "3 mons"   -> "3mo"
    [] OTHER -> dbInterval

(***************************************************************************)
(* The stock_ticks table                                                   *)
(***************************************************************************)
\* The value the interval column makes of a literal: the handlers write
\* logical tokens ("5m") and filter with storage literals ("00:05:00"), and
\* both name the same column value, which reads back in the storage form.
pgIntervalIn(lit) ==
  CASE lit \in {"1m", "00:01:00"}  -> "00:01:00"
    [] lit \in {"2m", "00:02:00"}  -> "00:02:00"
    [] lit \in {"5m", "00:05:00"}  -> "00:05:00"
    [] lit \in {"15m", "00:15:00"} -> "00:15:00"
    [] lit \in {"30m", "00:30:00"} -> "00:30:00"
    [] lit \in {"60m", "1h", "01:00:00"} -> "01:00:00"
    [] lit \in {"90m", "01:30:00"} -> "01:30:00"
    [] lit \in {"1d", "1 day"}     -> "1 day"
    [] lit \in {"5d", "5 days"}    -> "5 days"
    [] lit \in {"1wk", "7 days"}   -> "7 days"
    [] lit \in {"1mo", "1 mon", "1 month"}   -> "1 mon"
    [] lit \in {"3mo", "3 mons", "3 months"} -> "3 mons"
    [] OTHER -> lit

\* new Date(data.timestamp * 1000)
ToDate(sec) == sec * 1000

\* one provider data point (YahooFinanceData); v selects the price values
Point(sec, v) ==
  [timestamp |-> sec, open |-> 10 * v, high |-> 10 * v + 2, low |-> 10 * v - 1,
   close |-> 10 * v + 1, volume |-> 100 * v]

Points == {Point(s, v) : s \in Seconds, v \in Versions}

\* the natural key of a row
KeyOf(r) == <<r.symbol, r.timestamp, r.interval>>

\* the key under which the table holds a tick written with a literal
TickKey(tick) == <<tick.symbol, tick.timestamp, pgIntervalIn(tick.interval)>>

\* db.insert(stockTicksTable).values(tick).returning(): serial id, defaultNow().
\* uniqueTickIdx is a plain index: no insert is rejected for its key.
NewRow(nid, now, tick) ==
  [id |-> nid, symbol |-> tick.symbol, timestamp |-> tick.timestamp,
   open |-> tick.open, high |-> tick.high, low |-> tick.low, close |-> tick.close,
   volume |-> tick.volume, interval |-> pgIntervalIn(tick.interval),
   created_at |-> now]

DbInsert(st, nid, now, tick) == st \cup {NewRow(nid, now, tick)}

\* select().where(and(eq(symbol), eq(timestamp), eq(interval)))
DbSelectKey(st, symbol, timestamp, intervalLit) ==
  {r \in st : r.symbol = symbol /\ r.timestamp = timestamp
              /\ r.interval = pgIntervalIn(intervalLit)}

\* the row a result list starts with (result[0], limit(1)): the oldest id
FirstRow(rows) == CHOOSE r \in rows : \A q \in rows : r.id <= q.id

\* a set clause that leaves the volume column out
SetPricesWithoutVolume(r, tick) ==
  [r EXCEPT !.open = tick.open, !.high = tick.high, !.low = tick.low,
            !.close = tick.close]

\* .set({open, high, low, close, volume})
SetPrices(r, tick) ==
  [r EXCEPT !.open = tick.open, !.high = tick.high, !.low = tick.low,
            !.close = tick.close, !.volume = tick.volume]

\* update().set(..).where(eq(id, rowId))
DbUpdateById(st, rowId, tick) ==
  {IF r.id = rowId THEN SetPrices(r, tick) ELSE r : r \in st}

\* update().set(..).where(and(eq(symbol), eq(timestamp), eq(interval)))
DbUpdateByKey(st, tick) ==
  {IF KeyOf(r) = TickKey(tick) THEN SetPrices(r, tick) ELSE r : r \in st}

\* r comes before q in ORDER BY timestamp DESC; rows of equal timestamp come
\* in either id order, as the scan delivers them
Before(r, q, tie) ==
  \/ r.timestamp > q.timestamp
  \/ /\ r.timestamp = q.timestamp
     /\ IF tie = "asc" THEN r.id <= q.id ELSE r.id >= q.id

RECURSIVE OrderByTimestampDesc(_, _)
OrderByTimestampDesc(rows, tie) ==
  IF rows = {} THEN <<>>
  ELSE LET first == CHOOSE r \in rows : \A q \in rows : Before(r, q, tie)
       IN  <<first>> \o OrderByTimestampDesc(rows \ {first}, tie)

\* a cut that keeps the end of the ordered list
LimitFromEnd(s, n) == IF Len(s) <= n THEN s ELSE SubSeq(s, Len(s) - n + 1, Len(s))

\* .limit(n)
Limit(s, n) == IF Len(s) <= n THEN s ELSE SubSeq(s, 1, n)

Ties == {"asc", "desc"}


(***************************************************************************)
(* Provider responses                                                      *)
(***************************************************************************)
\* a provider call either throws or returns a chronological point list
Failed == [ok |-> FALSE, data |-> <<>>]

Returned(data) == [ok |-> TRUE, data |-> data]

\* the second point is later than the first or repeats its second with
\* other prices
Responses ==
  {<<>>, <<Point(1, 1)>>, <<Point(1, 2)>>, <<Point(2, 1)>>,
   <<Point(1, 1), Point(2, 2)>>, <<Point(1, 1), Point(1, 2)>>}

ProviderOutcomes == {Failed} \cup {Returned(d) : d \in Responses}

\* the record a provider call leaves in the call log
ProviderCall(symbol, interval, period) ==
  [symbol |-> symbol, interval |-> interval, period |-> period]

\* yahooData.map(data => ({symbol, timestamp: new Date(data.timestamp * 1000),
\* open .. volume, interval}))
transformYahooData(yahooData, symbol, interval) ==
  [i \in 1..Len(yahooData) |->
     [symbol |-> symbol, timestamp |-> ToDate(yahooData[i].timestamp),
      open |-> yahooData[i].open, high |-> yahooData[i].high,
      low |-> yahooData[i].low, close |-> yahooData[i].close,
      volume |-> yahooData[i].volume, interval |-> interval]]

\* what a handler reports of a stored row, with the interval it reports
Reported(row, interval) == [row EXCEPT !.interval = interval]

\* the state a handler leaves: the table, the serial counter, its result,
\* whether it threw, the provider calls it made and the number of select
\* statements it ran (none, unless the handler states them)
Outcome(st, nid, result, threw, providerCalls) ==
  [store |-> st, nextId |-> nid, out |-> result, err |-> threw,
   calls |-> providerCalls, queries |-> 0]

(***************************************************************************)
(* Failing store statements                                                *)
(***************************************************************************)
\* what the write statement of an upsert pass meets: it succeeds, the store
\* rejects this one row (a value the column does not take), or the store
\* cannot be reached. Both failures make .execute() throw.
FaultKinds == {"none", "row", "store"}

\* the faults of a run of passes, one per pass in order; passes beyond the
\* list meet no fault
NoFaults == <<>>

HeadFault(faults) == IF faults = <<>> THEN "none" ELSE Head(faults)

TailFaults(faults) == IF faults = <<>> THEN <<>> ELSE Tail(faults)

(***************************************************************************)
(* fetchStockData                                                          *)
(***************************************************************************)
\* a pass that writes without looking for the stored row
fetchInsertTick(st, nid, now, tick) ==
  [store |-> DbInsert(st, nid, now, tick), nextId |-> nid + 1,
   saved |-> NewRow(nid, now, tick)]

\* one pass of the upsert loop: find by natural key (limit 1), then update
\* by id or insert; the saved row is reported with its stored interval
fetchUpsertTick(st, nid, now, tick) ==
  LET existingTick == DbSelectKey(st, tick.symbol, tick.timestamp, tick.interval)
  IN  IF existingTick # {}
      THEN LET rowId == FirstRow(existingTick).id
               st2 == DbUpdateById(st, rowId, tick)
               savedTick == CHOOSE r \in st2 : r.id = rowId
           IN  [store |-> st2, nextId |-> nid, saved |-> savedTick]
      ELSE [store |-> DbInsert(st, nid, now, tick), nextId |-> nid + 1,
            saved |-> NewRow(nid, now, tick)]

\* the loop has no catch of its own: a pass that throws ends the loop and
\* the handler, whose catch rethrows
RECURSIVE fetchUpsertLoop(_, _, _, _, _, _)
fetchUpsertLoop(st, nid, now, ticks, faults, upsertedTicks) ==
  IF ticks = <<>>
  THEN [Outcome(st, nid, upsertedTicks, FALSE, <<>>)
          EXCEPT !.queries = Len(upsertedTicks)]
  ELSE IF HeadFault(faults) # "none"
  THEN [Outcome(st, nid, <<>>, TRUE, <<>>) EXCEPT !.queries = Len(upsertedTicks) + 1]
  ELSE LET u == fetchUpsertTick(st, nid, now, Head(ticks))
       IN  fetchUpsertLoop(u.store, u.nextId, now, Tail(ticks), TailFaults(faults),
                           Append(upsertedTicks, u.saved))

fetchStockData(st, nid, now, input, yahoo, faults) ==
  LET providerCalls == <<ProviderCall(input.symbol, input.interval, input.period)>>
  IN  IF ~yahoo.ok THEN Outcome(st, nid, <<>>, TRUE, providerCalls)
      ELSE IF Len(yahoo.data) = 0 THEN Outcome(st, nid, <<>>, FALSE, providerCalls)
      ELSE [fetchUpsertLoop(st, nid, now,
                            transformYahooData(yahoo.data, input.symbol,
                                               input.interval), faults, <<>>)
              EXCEPT !.calls = providerCalls]

(***************************************************************************)
(* batchFetchStocks                                                        *)
(***************************************************************************)
\* one pass of fetchStockDataForSymbol's loop: find by natural key, then
\* update every row of that key or insert; the first returned row is
\* reported with its interval normalized
batchUpsertTick(st, nid, now, tick) ==
  LET existing == DbSelectKey(st, tick.symbol, tick.timestamp, tick.interval)
  IN  IF existing # {}
      THEN LET st2 == DbUpdateByKey(st, tick)
               updated == {r \in st2 : KeyOf(r) = TickKey(tick)}
               result == FirstRow(updated)
           IN  [store |-> st2, nextId |-> nid,
                saved |-> Reported(result, normalizeInterval(result.interval))]
      ELSE LET result == NewRow(nid, now, tick)
           IN  [store |-> DbInsert(st, nid, now, tick), nextId |-> nid + 1,
                saved |-> Reported(result, normalizeInterval(result.interval))]

\* every pass runs inside try / catch (tickError): a pass that throws is
\* logged and the loop goes on with the next tick
RECURSIVE batchUpsertLoop(_, _, _, _, _, _)
batchUpsertLoop(st, nid, now, ticks, faults, upsertedTicks) ==
  IF ticks = <<>> THEN Outcome(st, nid, upsertedTicks, FALSE, <<>>)
  ELSE IF HeadFault(faults) # "none"
  THEN batchUpsertLoop(st, nid, now, Tail(ticks), TailFaults(faults), upsertedTicks)
  ELSE LET u == batchUpsertTick(st, nid, now, Head(ticks))
       IN  batchUpsertLoop(u.store, u.nextId, now, Tail(ticks), TailFaults(faults),
                           Append(upsertedTicks, u.saved))

fetchStockDataForSymbol(st, nid, now, symbol, interval, period, yahoo, faults) ==
  LET providerCalls == <<ProviderCall(symbol, interval, period)>>
  IN  IF ~yahoo.ok THEN Outcome(st, nid, <<>>, TRUE, providerCalls)
      ELSE IF Len(yahoo.data) = 0 THEN Outcome(st, nid, <<>>, FALSE, providerCalls)
      ELSE [batchUpsertLoop(st, nid, now,
                            transformYahooData(yahoo.data, symbol, interval),
                            faults, <<>>)
              EXCEPT !.calls = providerCalls, !.queries = Len(yahoo.data)]

\* a loop over input.symbols that ends the batch at the first symbol whose
\* fetch throws
RECURSIVE batchFetchLoopAborting(_, _, _, _, _, _, _, _)
batchFetchLoopAborting(st, nid, now, symbols, input, yahoos, faults, acc) ==
  IF symbols = <<>>
  THEN [Outcome(st, nid, acc.out, FALSE, acc.calls) EXCEPT !.queries = acc.queries]
  ELSE LET r == fetchStockDataForSymbol(st, nid, now, Head(symbols), input.interval,
                                        input.period, Head(yahoos),
                                        IF faults = <<>> THEN NoFaults
                                        ELSE Head(faults))
       IN  IF r.err
           THEN [Outcome(r.store, r.nextId, <<>>, TRUE, acc.calls \o r.calls)
                   EXCEPT !.queries = acc.queries]
           ELSE batchFetchLoopAborting(r.store, r.nextId, now, Tail(symbols), input,
                                       Tail(yahoos), TailFaults(faults),
                                       [out |-> acc.out \o r.out,
                                        calls |-> acc.calls \o r.calls,
                                        queries |-> acc.queries + r.queries])

\* the loop over input.symbols: a symbol that throws is recorded and skipped;
\* faults lists, symbol by symbol, the faults of that symbol's passes
RECURSIVE batchFetchLoop(_, _, _, _, _, _, _, _)
batchFetchLoop(st, nid, now, symbols, input, yahoos, faults, acc) ==
  IF symbols = <<>>
  THEN [Outcome(st, nid, acc.out, FALSE, acc.calls) EXCEPT !.queries = acc.queries]
  ELSE LET r == fetchStockDataForSymbol(st, nid, now, Head(symbols), input.interval,
                                        input.period, Head(yahoos),
                                        IF faults = <<>> THEN NoFaults
                                        ELSE Head(faults))
       IN  batchFetchLoop(r.store, r.nextId, now, Tail(symbols), input,
                          Tail(yahoos), TailFaults(faults),
                          [out |-> IF r.err THEN acc.out ELSE acc.out \o r.out,
                           calls |-> acc.calls \o r.calls,
                           queries |-> acc.queries + r.queries])

batchFetchStocks(st, nid, now, input, yahoos, faults) ==
  batchFetchLoop(st, nid, now, input.symbols, input, yahoos, faults,
                 [out |-> <<>>, calls |-> <<>>, queries |-> 0])


(***************************************************************************)
(* getHistoricalData                                                       *)
(***************************************************************************)
\* an optional Date is a sequence of length 0 or 1
NoDate == <<>>

\* the conditions with the date bounds taken exclusive (gt / lt)
MatchesExclusive(r, input, intervalLit) ==
  /\ (input.symbol # NoValue => r.symbol = input.symbol)
  /\ r.interval = pgIntervalIn(intervalLit)
  /\ (input.startDate # NoDate => r.timestamp > input.startDate[1])
  /\ (input.endDate # NoDate => r.timestamp < input.endDate[1])

\* the conjunction of the conditions built from the input; intervalLit is
\* the literal the handler compares the interval column with
Matches(r, input, intervalLit) ==
  /\ (input.symbol # NoValue => r.symbol = input.symbol)
  /\ r.interval = pgIntervalIn(intervalLit)
  /\ (input.startDate # NoDate => r.timestamp >= input.startDate[1])
  /\ (input.endDate # NoDate => r.timestamp <= input.endDate[1])

\* select().where(..).orderBy(desc(timestamp)).limit(input.limit)
RangeQuery(st, input, intervalLit, tie) ==
  Limit(OrderByTimestampDesc({r \in st : Matches(r, input, intervalLit)}, tie),
        input.limit)

getHistoricalData(st, input, tie) ==
  LET pgInterval == convertIntervalToPostgres(input.interval)
      results == RangeQuery(st, input, pgInterval, tie)
  IN  [i \in 1..Len(results) |->
         Reported(results[i], convertIntervalFromPostgres(results[i].interval))]

(***************************************************************************)
(* getChartData                                                            *)
(***************************************************************************)
\* what the statements of one getChartData call meet at the store: the first
\* range query, the inserts of the fallback in order, the second range query
ChartFaults(first, inserts, requery) ==
  [first |-> first, inserts |-> inserts, requery |-> requery]

NoChartFaults == ChartFaults("none", NoFaults, "none")

\* the fallback's upsertStockTicks: plain inserts, one per tick, each inside
\* a try / catch that swallows whatever the insert throws
RECURSIVE chartUpsertStockTicks(_, _, _, _, _)
chartUpsertStockTicks(st, nid, now, ticks, faults) ==
  IF ticks = <<>> THEN [store |-> st, nextId |-> nid]
  ELSE IF HeadFault(faults) # "none"
  THEN chartUpsertStockTicks(st, nid, now, Tail(ticks), TailFaults(faults))
  ELSE chartUpsertStockTicks(DbInsert(st, nid, now, Head(ticks)), nid + 1, now,
                             Tail(ticks), TailFaults(faults))

\* a projection that takes close from open
ChartPointsCloseFromOpen(results) ==
  [i \in 1..Len(results) |->
     [timestamp |-> results[i].timestamp, open |-> results[i].open,
      high |-> results[i].high, low |-> results[i].low,
      close |-> results[i].open, volume |-> results[i].volume]]

\* results.map(tick => ({timestamp, open, high, low, close, volume}))
ChartPoints(results) ==
  [i \in 1..Len(results) |->
     [timestamp |-> results[i].timestamp, open |-> results[i].open,
      high |-> results[i].high, low |-> results[i].low,
      close |-> results[i].close, volume |-> results[i].volume]]

ChartResponse(symbol, interval, data) ==
  [symbol |-> symbol, interval |-> interval, data |-> data]

\* whether the first range query of getChartData leads to the provider
ChartFallsBack(st, input, tie) ==
  RangeQuery(st, input, input.interval, tie) = <<>> /\ input.symbol # NoValue

\* a handler that goes to the provider whenever the range query is empty,
\* with the default symbol when none was asked for
getChartDataFetchOnEmpty(st, nid, now, input, yahoo, faults, tie) ==
  LET results == RangeQuery(st, input, input.interval, tie)
      symbol == IF input.symbol # NoValue THEN input.symbol ELSE "AAPL"
  IN  IF Len(results) = 0
      THEN [Outcome(st, nid, ChartResponse(symbol, input.interval, <<>>), FALSE,
                    <<ProviderCall(symbol, input.interval, "1d")>>)
              EXCEPT !.queries = 2]
      ELSE [Outcome(st, nid,
                    ChartResponse(symbol, input.interval, ChartPoints(results)),
                    FALSE, <<>>)
              EXCEPT !.queries = 1]

\* the first range query is covered by the outer try / catch, which rethrows;
\* the provider call, the inserts and the second range query are inside the
\* inner try, whose catch logs and falls through to the empty response
\* a handler that goes to the provider for AAPL when no symbol was asked for
\* and no row matches
getChartDataDefaultFetch(st, nid, now, input, yahoo, faults, tie) ==
  LET results == RangeQuery(st, input, input.interval, tie)
      symbol == IF input.symbol # NoValue THEN input.symbol ELSE "AAPL"
      providerCalls == <<ProviderCall(symbol, input.interval, "1d")>>
  IN  IF Len(results) = 0
      THEN IF ~yahoo.ok
           THEN [Outcome(st, nid, ChartResponse(symbol, input.interval, <<>>),
                         FALSE, providerCalls)
                   EXCEPT !.queries = 1]
           ELSE LET u == chartUpsertStockTicks(st, nid, now,
                           transformYahooData(yahoo.data, symbol, input.interval),
                           faults.inserts)
                    newResults == RangeQuery(u.store, input, input.interval, tie)
                IN  [Outcome(u.store, u.nextId,
                             ChartResponse(symbol, input.interval,
                                           ChartPoints(newResults)),
                             FALSE, providerCalls)
                       EXCEPT !.queries = 2]
      ELSE [Outcome(st, nid,
                    ChartResponse(IF input.symbol # NoValue THEN input.symbol
                                  ELSE results[1].symbol,
                                  input.interval, ChartPoints(results)),
                    FALSE, <<>>)
              EXCEPT !.queries = 1]

getChartData(st, nid, now, input, yahoo, faults, tie) ==
  LET results == RangeQuery(st, input, input.interval, tie)
      providerCalls == <<ProviderCall(input.symbol, input.interval, "1d")>>
  IN  IF faults.first # "none"
      THEN [Outcome(st, nid, <<>>, TRUE, <<>>) EXCEPT !.queries = 1]
      ELSE IF Len(results) = 0 /\ input.symbol # NoValue
      THEN IF ~yahoo.ok
           THEN [Outcome(st, nid, ChartResponse(input.symbol, input.interval, <<>>),
                         FALSE, providerCalls)
                   EXCEPT !.queries = 1]
           ELSE LET u == chartUpsertStockTicks(st, nid, now,
                           transformYahooData(yahoo.data, input.symbol,
                                              input.interval),
                           faults.inserts)
                    newResults == RangeQuery(u.store, input, input.interval, tie)
                IN  [Outcome(u.store, u.nextId,
                             ChartResponse(input.symbol, input.interval,
                                           IF faults.requery # "none" THEN <<>>
                                           ELSE ChartPoints(newResults)),
                             FALSE, providerCalls)
                       EXCEPT !.queries = 2]
      ELSE IF Len(results) = 0
      THEN [Outcome(st, nid, ChartResponse("AAPL", input.interval, <<>>), FALSE, <<>>)
              EXCEPT !.queries = 1]
      ELSE [Outcome(st, nid,
                    ChartResponse(IF input.symbol # NoValue THEN input.symbol
                                  ELSE results[1].symbol,
                                  input.interval, ChartPoints(results)),
                    FALSE, <<>>)
              EXCEPT !.queries = 1]

(***************************************************************************)
(* getLatestPrices                                                         *)
(***************************************************************************)
\* one pass of upsertStockTicks' loop: find by natural key (limit 1) with the
\* interval written as reverseIntervalMapping gives it, update by id or insert
latestUpsertTick(st, nid, now, tick) ==
  LET lit == reverseIntervalMapping(tick.interval)
      existing == DbSelectKey(st, tick.symbol, tick.timestamp, lit)
      report(result) ==
        Reported(result, IF intervalMapping(result.interval) # NoValue
                         THEN intervalMapping(result.interval) ELSE tick.interval)
  IN  IF existing # {}
      THEN LET rowId == FirstRow(existing).id
               st2 == DbUpdateById(st, rowId, tick)
           IN  [store |-> st2, nextId |-> nid,
                saved |-> report(CHOOSE r \in st2 : r.id = rowId)]
      ELSE LET written == [tick EXCEPT !.interval = lit]
           IN  [store |-> DbInsert(st, nid, now, written), nextId |-> nid + 1,
                saved |-> report(NewRow(nid, now, written))]

\* every pass runs inside try / catch that rethrows: a pass that throws
\* ends the loop
RECURSIVE upsertStockTicks(_, _, _, _, _, _)
upsertStockTicks(st, nid, now, ticks, faults, results) ==
  IF ticks = <<>>
  THEN [Outcome(st, nid, results, FALSE, <<>>) EXCEPT !.queries = Len(results)]
  ELSE IF HeadFault(faults) # "none"
  THEN [Outcome(st, nid, <<>>, TRUE, <<>>) EXCEPT !.queries = Len(results) + 1]
  ELSE LET u == latestUpsertTick(st, nid, now, Head(ticks))
       IN  upsertStockTicks(u.store, u.nextId, now, Tail(ticks), TailFaults(faults),
                            Append(results, u.saved))

\* a refresh loop without the per-symbol catch: it ends at the first symbol
\* whose provider call throws
RECURSIVE collectFreshTicksUntilFailure(_, _, _)
collectFreshTicksUntilFailure(symbols, yahoos, acc) ==
  IF symbols = <<>> THEN acc
  ELSE LET symbol == Head(symbols)
           yahoo == yahoos[symbol]
           called == Append(acc.calls, ProviderCall(symbol, "1m", "1d"))
       IN  IF ~yahoo.ok THEN [allTicks |-> acc.allTicks, calls |-> called]
           ELSE collectFreshTicksUntilFailure(Tail(symbols), yahoos,
                  [allTicks |-> acc.allTicks
                                \o transformYahooData(yahoo.data, symbol, "1m"),
                   calls |-> called])

\* the refresh loop: one provider call per symbol of the fixed list (default
\* interval 1m, period 1d); a failing symbol is skipped, the other symbols'
\* ticks are collected
RECURSIVE collectFreshTicks(_, _, _)
collectFreshTicks(symbols, yahoos, acc) ==
  IF symbols = <<>> THEN acc
  ELSE LET symbol == Head(symbols)
           yahoo == yahoos[symbol]
       IN  collectFreshTicks(Tail(symbols), yahoos,
             [allTicks |-> IF yahoo.ok
                           THEN acc.allTicks
                                \o transformYahooData(yahoo.data, symbol, "1m")
                           ELSE acc.allTicks,
              calls |-> Append(acc.calls, ProviderCall(symbol, "1m", "1d"))])

\* min(timestamp) .. groupBy(symbol)
MinTimestamp(st, symbol) ==
  CHOOSE t \in {r.timestamp : r \in {q \in st : q.symbol = symbol}} :
    \A r \in st : r.symbol = symbol => r.timestamp >= t

\* max(timestamp) .. groupBy(symbol)
MaxTimestamp(st, symbol) ==
  CHOOSE t \in {r.timestamp : r \in {q \in st : q.symbol = symbol}} :
    \A r \in st : r.symbol = symbol => r.timestamp <= t

\* the join ordered by timestamp ascending
latestQueryAscending(st, tie) ==
  LET s == OrderByTimestampDesc({r \in st : r.timestamp = MaxTimestamp(st, r.symbol)},
                                tie)
  IN  [i \in 1..Len(s) |-> s[Len(s) + 1 - i]]

\* innerJoin of the table with the per-symbol maximum, newest first
latestQuery(st, tie) ==
  OrderByTimestampDesc({r \in st : r.timestamp = MaxTimestamp(st, r.symbol)}, tie)

getLatestPrices(st, nid, now, fetchFresh, yahoos, faults, tie) ==
  LET fresh == IF fetchFresh
               THEN collectFreshTicks(stockSymbolSchema, yahoos,
                                      [allTicks |-> <<>>, calls |-> <<>>])
               ELSE [allTicks |-> <<>>, calls |-> <<>>]
      u == IF Len(fresh.allTicks) > 0
           THEN upsertStockTicks(st, nid, now, fresh.allTicks, faults, <<>>)
           ELSE Outcome(st, nid, <<>>, FALSE, <<>>)
      results == latestQuery(u.store, tie)
  IN  IF u.err
      THEN [Outcome(u.store, u.nextId, <<>>, TRUE, fresh.calls)
              EXCEPT !.queries = u.queries]
      ELSE [Outcome(u.store, u.nextId,
                    [i \in 1..Len(results) |->
                       Reported(results[i],
                                IF intervalMapping(results[i].interval) # NoValue
                                THEN intervalMapping(results[i].interval)
                                ELSE results[i].interval)],
                    FALSE, fresh.calls)
              EXCEPT !.queries = u.queries + 1]


(***************************************************************************)
(* Callers: the inputs the model draws                                     *)
(***************************************************************************)
FetchInput(symbol, interval) ==
  [symbol |-> symbol, interval |-> interval, period |-> "1d"]

BatchSymbolLists == {<<"AAPL">>, <<"META", "AAPL">>}

BatchInput(symbols, interval) ==
  [symbols |-> symbols, interval |-> interval, period |-> "1d"]

BatchOutcomes == {Failed, Returned(<<>>), Returned(<<Point(1, 2)>>)}

\* limit: 1..1000, default 100
DefaultLimit == 100
Limits == {1, DefaultLimit}
StartDates == {NoDate, <<2000>>}
EndDates == {NoDate, <<1000>>}

HistoryInputs ==
  [symbol : {NoValue} \cup ModelSymbols, interval : ModelIntervals,
   startDate : StartDates, endDate : EndDates, limit : Limits]

ChartInputs ==
  [symbol : {NoValue, "AAPL"}, interval : ModelIntervals,
   startDate : StartDates, endDate : {NoDate}, limit : Limits]

ChartOutcomes ==
  {Failed, Returned(<<>>), Returned(<<Point(1, 1)>>),
   Returned(<<Point(1, 1), Point(1, 1)>>)}

\* the refresh of getLatestPrices: every symbol's call fails or returns the
\* one point of the current second
FreshOutcome(failing, sec) ==
  [s \in SYMBOLS |-> IF s \in failing THEN Failed ELSE Returned(<<Point(sec, 1)>>)]

FreshOutcomes ==
  {FreshOutcome(failing, sec) :
     failing \in {{}, SYMBOLS \ {"AAPL"}, SYMBOLS}, sec \in Seconds}

\* the first two, a middle and the last symbol of the list fail independently
\* of each other, or every symbol fails
RefreshFailures == (SUBSET {"META", "AAPL", "GOOG", "NVDA"}) \cup {SYMBOLS}

RefreshOutcomes ==
  {FreshOutcome(failing, sec) : failing \in RefreshFailures, sec \in Seconds}

NoInput == [symbol |-> NoValue]
NoResponse == [ok |-> FALSE, data |-> <<>>, unused |-> TRUE]

Procs == {1, 2}
Idle == [pc |-> "idle"]

(***************************************************************************)
(* Sequential callers: one call at a time, each call runs to its end and   *)
(* its response is taken before the next call is issued                    *)
(***************************************************************************)
Init ==
  /\ store = {}
  /\ nextId = 1
  /\ clock = 1
  /\ op = "idle"
  /\ inp = NoInput
  /\ resp = NoResponse
  /\ out = <<>>
  /\ err = FALSE
  /\ calls = <<>>
  /\ queries = 0
  /\ pre = {}
  /\ procs = [p \in Procs |-> Idle]
  /\ upserted = {}
  /\ log = <<>>

\* what a finished call leaves in the state
Finish(name, input, response, r, advance) ==
  /\ op = "idle"
  /\ store' = r.store
  /\ nextId' = r.nextId
  /\ clock' = IF advance THEN clock + 1 ELSE clock
  /\ op' = name
  /\ inp' = input
  /\ resp' = response
  /\ out' = r.out
  /\ err' = r.err
  /\ calls' = r.calls
  /\ queries' = r.queries
  /\ pre' = store
  /\ UNCHANGED <<procs, upserted, log>>

\* the caller takes the response
Return ==
  /\ op # "idle"
  /\ op' = "idle"
  /\ inp' = NoInput
  /\ resp' = NoResponse
  /\ out' = <<>>
  /\ err' = FALSE
  /\ calls' = <<>>
  /\ queries' = 0
  /\ pre' = {}
  /\ UNCHANGED <<store, nextId, clock, procs, upserted, log>>

FetchStockData ==
  \E symbol \in ModelSymbols, interval \in ModelIntervals, yahoo \in ProviderOutcomes :
    /\ clock <= MaxCalls
    /\ Finish("fetchStockData", FetchInput(symbol, interval), yahoo,
              fetchStockData(store, nextId, clock, FetchInput(symbol, interval), yahoo,
                             NoFaults),
              TRUE)

BatchFetchStocks ==
  \E symbols \in BatchSymbolLists, interval \in ModelIntervals :
    \E yahoos \in [1..Len(symbols) -> BatchOutcomes] :
      /\ clock <= MaxCalls
      /\ Finish("batchFetchStocks", BatchInput(symbols, interval), yahoos,
                batchFetchStocks(store, nextId, clock, BatchInput(symbols, interval),
                                 yahoos, NoFaults),
                TRUE)

GetHistoricalData ==
  \E input \in HistoryInputs, tie \in Ties :
    Finish("getHistoricalData", input, NoResponse,
           [Outcome(store, nextId, getHistoricalData(store, input, tie), FALSE, <<>>)
              EXCEPT !.queries = 1],
           FALSE)

GetChartData ==
  \E input \in ChartInputs, tie \in Ties :
    \/ /\ ~ChartFallsBack(store, input, tie)
       /\ Finish("getChartData", input, NoResponse,
                 getChartData(store, nextId, clock, input, Failed, NoChartFaults, tie), FALSE)
    \/ /\ ChartFallsBack(store, input, tie)
       /\ clock <= MaxCalls
       /\ \E yahoo \in ChartOutcomes :
            Finish("getChartData", input, yahoo,
                   getChartData(store, nextId, clock, input, yahoo, NoChartFaults,
                                    tie), TRUE)

LatestInput(fetchFresh) == [fetchFresh |-> fetchFresh]

GetLatestPricesStored ==
  \E tie \in Ties :
    Finish("getLatestPrices", LatestInput(FALSE), NoResponse,
           getLatestPrices(store, nextId, clock, FALSE, <<>>, NoFaults, tie), FALSE)

GetLatestPricesFresh(outcomes) ==
  \E tie \in Ties, yahoos \in outcomes :
    /\ clock <= MaxCalls
    /\ Finish("getLatestPrices", LatestInput(TRUE), yahoos,
              getLatestPrices(store, nextId, clock, TRUE, yahoos, NoFaults, tie), TRUE)

Next ==
  \/ FetchStockData
  \/ BatchFetchStocks
  \/ GetHistoricalData
  \/ GetChartData
  \/ GetLatestPricesStored
  \/ GetLatestPricesFresh(FreshOutcomes)
  \/ Return

Spec == Init /\ [][Next]_vars

\* getLatestPrices alone, with failures at the start, the middle and the end
\* of the refresh loop
NextFresh ==
  \/ GetLatestPricesFresh(RefreshOutcomes)
  \/ GetLatestPricesStored
  \/ Return

SpecFresh == Init /\ [][NextFresh]_vars

(***************************************************************************)
(* Calls whose store statements may fail                                   *)
(***************************************************************************)
\* one fetch as the handler meets it: the provider's response and, point by
\* point, what the write of that point meets at the store
WithFaults(yahoo, faults) == [ok |-> yahoo.ok, data |-> yahoo.data, faults |-> faults]

\* no fault, a fault at the first point, or a fault at the second point
FaultLists ==
  {NoFaults} \cup {<<k>> : k \in FaultKinds \ {"none"}}
             \cup {<<"none", k>> : k \in FaultKinds \ {"none"}}

\* two points of different seconds, or one point
FaultyResponses == {<<Point(1, 1), Point(2, 2)>>, <<Point(1, 2)>>}

FaultyFetches ==
  {WithFaults(Failed, NoFaults)}
    \cup {WithFaults(Returned(d), f) : d \in FaultyResponses, f \in FaultLists}

\* the faults of the passes of a list of n ticks
PadFaults(faults, n) ==
  [i \in 1..n |-> IF i <= Len(faults) THEN faults[i] ELSE "none"]

\* the faults the passes over allTicks meet, in the order of allTicks
RECURSIVE FreshFaults(_, _)
FreshFaults(symbols, yahoos) ==
  IF symbols = <<>> THEN <<>>
  ELSE (IF yahoos[Head(symbols)].ok
        THEN PadFaults(yahoos[Head(symbols)].faults, Len(yahoos[Head(symbols)].data))
        ELSE <<>>)
       \o FreshFaults(Tail(symbols), yahoos)

\* a refresh in which the provider fails for the symbols of failing, returns
\* the point of second sec for the others, and the write of the point of
\* symbol faulty meets fault kind
FaultyRefresh(failing, sec, faulty, kind) ==
  [s \in SYMBOLS |->
     IF s \in failing THEN WithFaults(Failed, NoFaults)
     ELSE WithFaults(Returned(<<Point(sec, 1)>>),
                     IF s = faulty THEN <<kind>> ELSE NoFaults)]

FaultyRefreshes ==
  {FaultyRefresh(failing, sec, faulty, kind) :
     failing \in {{}, {"META"}}, sec \in Seconds,
     faulty \in {"AAPL", "GOOG", "NVDA"}, kind \in FaultKinds}

FetchStockDataFaulty ==
  \E symbol \in ModelSymbols, yahoo \in FaultyFetches :
    /\ clock <= MaxCalls
    /\ Finish("fetchStockData", FetchInput(symbol, "1m"), yahoo,
              fetchStockData(store, nextId, clock, FetchInput(symbol, "1m"), yahoo,
                             yahoo.faults),
              TRUE)

BatchFetchStocksFaulty ==
  \E symbols \in BatchSymbolLists :
    \E yahoos \in [1..Len(symbols) -> FaultyFetches] :
      /\ clock <= MaxCalls
      /\ Finish("batchFetchStocks", BatchInput(symbols, "1m"), yahoos,
                batchFetchStocks(store, nextId, clock, BatchInput(symbols, "1m"),
                                 yahoos, [k \in 1..Len(symbols) |-> yahoos[k].faults]),
                TRUE)

GetLatestPricesFaulty ==
  \E tie \in Ties, yahoos \in FaultyRefreshes :
    /\ clock <= MaxCalls
    /\ Finish("getLatestPrices", LatestInput(TRUE), yahoos,
              getLatestPrices(store, nextId, clock, TRUE, yahoos,
                              FreshFaults(stockSymbolSchema, yahoos), tie),
              TRUE)

NextFaults ==
  \/ FetchStockDataFaulty
  \/ BatchFetchStocksFaulty
  \/ GetLatestPricesFaulty
  \/ Return

SpecFaults == Init /\ [][NextFaults]_vars


\* getChartData with statements that may fail: the first range query, the
\* first or second insert of the fallback, the second range query
ChartFaultSets ==
  {ChartFaults(first, inserts, requery) :
     first \in {"none", "store"},
     inserts \in {NoFaults, <<"row">>, <<"store">>, <<"none", "store">>},
     requery \in {"none", "store"}}

FaultyChartInputs ==
  [symbol : {NoValue, "AAPL"}, interval : {"1m"}, startDate : {NoDate},
   endDate : {NoDate}, limit : Limits]

FaultyChartOutcomes ==
  {Failed, Returned(<<Point(1, 1)>>), Returned(<<Point(1, 1), Point(2, 2)>>)}

GetChartDataFaulty ==
  \E input \in FaultyChartInputs, tie \in Ties, faults \in ChartFaultSets :
    \/ /\ ~ChartFallsBack(store, input, tie) \/ faults.first # "none"
       /\ faults.inserts = NoFaults
       /\ faults.requery = "none"
       /\ Finish("getChartData", input, WithFaults(Failed, faults),
                 getChartData(store, nextId, clock, input, Failed, faults, tie),
                 FALSE)
    \/ /\ ChartFallsBack(store, input, tie)
       /\ faults.first = "none"
       /\ clock <= MaxCalls
       /\ \E yahoo \in FaultyChartOutcomes :
            Finish("getChartData", input, WithFaults(yahoo, faults),
                   getChartData(store, nextId, clock, input, yahoo, faults, tie),
                   TRUE)

NextChartFaults == GetChartDataFaulty \/ FetchStockDataFaulty \/ Return

SpecChartFaults == Init /\ [][NextChartFaults]_vars

(***************************************************************************)
(* The router: every procedure parses its input with its schema and calls  *)
(* its handler with the parsed value, or answers BAD_REQUEST               *)
(***************************************************************************)
\* limit: z.number().int().positive().max(1000); symbols: .min(1).max(6)
MaxLimit == 1000
MinBatchSymbols == 1
MaxBatchSymbols == 6

\* an optional number is a sequence of length 0 or 1
NoLimit == <<>>

\* the result of schema.safeParse: whether the input is accepted and the
\* value the handler gets, defaults filled in
Parsed(success, data) == [success |-> success, data |-> data]

\* intervalSchema.default('1m')
IntervalOrDefault(interval) == IF interval = NoValue THEN "1m" ELSE interval

IntervalAccepted(interval) == interval = NoValue \/ interval \in intervalSchema

fetchStockDataInputSchema(raw) ==
  Parsed(raw.symbol \in SYMBOLS /\ IntervalAccepted(raw.interval),
         [symbol |-> raw.symbol, interval |-> IntervalOrDefault(raw.interval),
          period |-> raw.period])

\* a schema whose limit has no upper bound
getHistoricalDataInputSchemaNoMax(raw) ==
  Parsed(/\ raw.symbol = NoValue \/ raw.symbol \in SYMBOLS
         /\ IntervalAccepted(raw.interval)
         /\ raw.limit = NoLimit \/ raw.limit[1] > 0,
         [symbol |-> raw.symbol, interval |-> IntervalOrDefault(raw.interval),
          startDate |-> raw.startDate, endDate |-> raw.endDate,
          limit |-> IF raw.limit = NoLimit THEN DefaultLimit ELSE raw.limit[1]])

getHistoricalDataInputSchema(raw) ==
  Parsed(/\ raw.symbol = NoValue \/ raw.symbol \in SYMBOLS
         /\ IntervalAccepted(raw.interval)
         /\ raw.limit = NoLimit \/ (raw.limit[1] > 0 /\ raw.limit[1] <= MaxLimit),
         [symbol |-> raw.symbol, interval |-> IntervalOrDefault(raw.interval),
          startDate |-> raw.startDate, endDate |-> raw.endDate,
          limit |-> IF raw.limit = NoLimit THEN DefaultLimit ELSE raw.limit[1]])

batchFetchInputSchema(raw) ==
  Parsed(/\ \A k \in 1..Len(raw.symbols) : raw.symbols[k] \in SYMBOLS
         /\ Len(raw.symbols) >= MinBatchSymbols
         /\ Len(raw.symbols) <= MaxBatchSymbols
         /\ IntervalAccepted(raw.interval),
         [symbols |-> raw.symbols, interval |-> IntervalOrDefault(raw.interval),
          period |-> raw.period])

\* what the caller of a procedure gets when the input does not parse
BadRequest == <<"BAD_REQUEST">>

\* the handler is not called: no statement, no provider call
Rejected(st, nid) == Outcome(st, nid, BadRequest, TRUE, <<>>)

\* the requests callers send
RequestSymbols == {NoValue, "AAPL", "TSLA"}
RequestIntervals == {NoValue, "1h"}
RequestLimits == {NoLimit, <<0>>, <<1>>, <<MaxLimit>>, <<MaxLimit + 1>>}

FetchRequests == [symbol : RequestSymbols, interval : RequestIntervals, period : {"1d"}]

RangeRequests ==
  [symbol : RequestSymbols, interval : RequestIntervals, startDate : {NoDate},
   endDate : {NoDate}, limit : RequestLimits]

BatchRequestLists ==
  {<<>>, <<"AAPL">>, <<"TSLA">>, <<"META", "TSLA">>, stockSymbolSchema,
   stockSymbolSchema \o <<"META">>}

BatchRequests ==
  [symbols : BatchRequestLists, interval : RequestIntervals, period : {"1d"}]

RequestOutcomes == {Failed, Returned(<<Point(1, 1)>>), Returned(<<Point(1, 1), Point(2, 2)>>)}

RequestFetchStockData ==
  \E raw \in FetchRequests, yahoo \in RequestOutcomes :
    LET parsed == fetchStockDataInputSchema(raw)
    IN  IF parsed.success
        THEN /\ clock <= MaxCalls
             /\ Finish("fetchStockData", raw, yahoo,
                       fetchStockData(store, nextId, clock, parsed.data, yahoo,
                                      NoFaults),
                       TRUE)
        ELSE Finish("fetchStockData", raw, NoResponse, Rejected(store, nextId), FALSE)

RequestBatchFetchStocks ==
  \E raw \in BatchRequests, yahoo \in BatchOutcomes :
    LET parsed == batchFetchInputSchema(raw)
        yahoos == [k \in 1..Len(raw.symbols) |-> yahoo]
    IN  IF parsed.success
        THEN /\ clock <= MaxCalls
             /\ Finish("batchFetchStocks", raw, yahoos,
                       batchFetchStocks(store, nextId, clock, parsed.data, yahoos,
                                        NoFaults),
                       TRUE)
        ELSE Finish("batchFetchStocks", raw, NoResponse, Rejected(store, nextId),
                    FALSE)

RequestGetHistoricalData ==
  \E raw \in RangeRequests, tie \in Ties :
    LET parsed == getHistoricalDataInputSchema(raw)
    IN  IF parsed.success
        THEN Finish("getHistoricalData", raw, NoResponse,
                    [Outcome(store, nextId, getHistoricalData(store, parsed.data, tie),
                             FALSE, <<>>)
                       EXCEPT !.queries = 1],
                    FALSE)
        ELSE Finish("getHistoricalData", raw, NoResponse, Rejected(store, nextId),
                    FALSE)

RequestGetChartData ==
  \E raw \in RangeRequests, tie \in Ties, yahoo \in ChartOutcomes :
    LET parsed == getHistoricalDataInputSchema(raw)
    IN  IF ~parsed.success
        THEN Finish("getChartData", raw, NoResponse, Rejected(store, nextId), FALSE)
        ELSE IF ChartFallsBack(store, parsed.data, tie)
        THEN /\ clock <= MaxCalls
             /\ Finish("getChartData", raw, yahoo,
                       getChartData(store, nextId, clock, parsed.data, yahoo,
                                    NoChartFaults, tie),
                       TRUE)
        ELSE Finish("getChartData", raw, NoResponse,
                    getChartData(store, nextId, clock, parsed.data, Failed,
                                 NoChartFaults, tie),
                    FALSE)

NextRequests ==
  \/ RequestFetchStockData
  \/ RequestBatchFetchStocks
  \/ RequestGetHistoricalData
  \/ RequestGetChartData
  \/ Return

SpecRequests == Init /\ [][NextRequests]_vars

(***************************************************************************)
(* Writers called with every interval token                                *)
(***************************************************************************)
TokenResponses == {Returned(<<Point(1, 1)>>), Returned(<<Point(2, 2)>>)}

ChartInputOf(symbol, interval) ==
  [symbol |-> symbol, interval |-> interval, startDate |-> NoDate,
   endDate |-> NoDate, limit |-> DefaultLimit]

FetchStockDataToken ==
  \E interval \in intervalSchema, yahoo \in TokenResponses :
    /\ clock <= MaxCalls
    /\ Finish("fetchStockData", FetchInput("AAPL", interval), yahoo,
              fetchStockData(store, nextId, clock, FetchInput("AAPL", interval), yahoo,
                             NoFaults),
              TRUE)

BatchFetchStocksToken ==
  \E interval \in intervalSchema, yahoo \in TokenResponses :
    /\ clock <= MaxCalls
    /\ Finish("batchFetchStocks", BatchInput(<<"AAPL">>, interval), <<yahoo>>,
              batchFetchStocks(store, nextId, clock, BatchInput(<<"AAPL">>, interval),
                               <<yahoo>>, NoFaults),
              TRUE)

GetChartDataToken ==
  \E interval \in intervalSchema, tie \in Ties :
    LET input == ChartInputOf("AAPL", interval)
    IN  \/ /\ ~ChartFallsBack(store, input, tie)
           /\ Finish("getChartData", input, NoResponse,
                     getChartData(store, nextId, clock, input, Failed, NoChartFaults, tie), FALSE)
        \/ /\ ChartFallsBack(store, input, tie)
           /\ clock <= MaxCalls
           /\ \E yahoo \in TokenResponses :
                Finish("getChartData", input, yahoo,
                       getChartData(store, nextId, clock, input, yahoo, NoChartFaults,
                                    tie), TRUE)

NextTokens ==
  \/ FetchStockDataToken
  \/ BatchFetchStocksToken
  \/ GetChartDataToken
  \/ GetLatestPricesFresh(FreshOutcomes)
  \/ Return

SpecTokens == Init /\ [][NextTokens]_vars

(***************************************************************************)
(* The interval translation tables on their own                            *)
(***************************************************************************)
\* the tables that take a token towards the store and those that take a
\* column value back, by the name of the table
Encoders == {"convertIntervalToPostgres", "reverseIntervalMapping"}

Decoders == {"convertIntervalFromPostgres", "intervalMapping", "normalizeInterval"}

encode(table, token) ==
  IF table = "convertIntervalToPostgres" THEN convertIntervalToPostgres(token)
  ELSE reverseIntervalMapping(token)

\* intervalMapping[dbInterval] || dbInterval
decode(table, repr) ==
  IF table = "convertIntervalFromPostgres" THEN convertIntervalFromPostgres(repr)
  ELSE IF table = "normalizeInterval" THEN normalizeInterval(repr)
  ELSE IF intervalMapping(repr) # NoValue THEN intervalMapping(repr)
  ELSE repr

\* interval values that none of the tables has as a key
UnknownIntervals == {"10m", "4h"}

CodecInput(token, encoder, decoder, stored) ==
  [token |-> token, encoder |-> encoder, decoder |-> decoder, stored |-> stored]

Encode ==
  \E token \in intervalSchema \cup UnknownIntervals, encoder \in Encoders :
    /\ op = "idle"
    /\ op' = "encode"
    /\ inp' = CodecInput(token, encoder, NoValue, FALSE)
    /\ out' = encode(encoder, token)
    /\ UNCHANGED <<store, nextId, clock, resp, err, calls, queries, pre, procs,
                   upserted, log>>

\* the encoded literal is written to the interval column and read back; the
\* column is given literals of the thirteen tokens only
StoreInterval ==
  /\ op = "encode"
  /\ inp.token \in intervalSchema
  /\ ~inp.stored
  /\ inp' = [inp EXCEPT !.stored = TRUE]
  /\ out' = pgIntervalIn(out)
  /\ UNCHANGED <<store, nextId, clock, op, resp, err, calls, queries, pre, procs,
                 upserted, log>>

Decode ==
  \E decoder \in Decoders :
    /\ op = "encode"
    /\ op' = "decode"
    /\ inp' = [inp EXCEPT !.decoder = decoder]
    /\ out' = decode(decoder, out)
    /\ UNCHANGED <<store, nextId, clock, resp, err, calls, queries, pre, procs,
                   upserted, log>>

NextCodec == Encode \/ StoreInterval \/ Decode \/ Return

SpecCodec == Init /\ [][NextCodec]_vars

(***************************************************************************)
(* Concurrent upserts: every await of an upsert loop is a step, and the    *)
(* steps of the running loops interleave                                   *)
(***************************************************************************)
Kinds == {"fetchStockData", "batchFetchStocks", "getLatestPrices"}

RunResponses == {<<Point(1, 1)>>, <<Point(1, 2), Point(2, 2)>>}

\* the ticks a run upserts: the provider's points for one symbol, written
\* with interval 1m
RunTicks(data) == transformYahooData(data, "AAPL", "1m")

\* await db.select()...: limit(1) in fetchStockData and getLatestPrices, every
\* matching row in batchFetchStocks
FindStep(kind, st, tick) ==
  LET lit == IF kind = "getLatestPrices" THEN reverseIntervalMapping(tick.interval)
             ELSE tick.interval
      rows == DbSelectKey(st, tick.symbol, tick.timestamp, lit)
  IN  IF kind = "batchFetchStocks" \/ rows = {} THEN rows ELSE {FirstRow(rows)}

\* await db.update()... / await db.insert()... with the rows the find returned
WriteStep(kind, st, nid, now, tick, existing) ==
  IF existing # {}
  THEN [store |-> IF kind = "batchFetchStocks" THEN DbUpdateByKey(st, tick)
                  ELSE DbUpdateById(st, FirstRow(existing).id, tick),
        nextId |-> nid]
  ELSE [store |-> DbInsert(st, nid, now,
                     IF kind = "getLatestPrices"
                     THEN [tick EXCEPT !.interval = reverseIntervalMapping(tick.interval)]
                     ELSE tick),
        nextId |-> nid + 1]

StartRun(p) ==
  \E kind \in Kinds, data \in RunResponses :
    /\ procs[p].pc = "idle"
    /\ clock <= MaxRuns
    /\ procs' = [procs EXCEPT ![p] =
                   [pc |-> "find", kind |-> kind, ticks |-> RunTicks(data),
                    i |-> 1, existing |-> {}, now |-> clock]]
    /\ clock' = clock + 1
    /\ UNCHANGED <<store, nextId, op, inp, resp, out, err, calls, queries, pre,
                   upserted, log>>

Find(p) ==
  /\ procs[p].pc = "find"
  /\ procs' = [procs EXCEPT ![p].pc = "write",
                            ![p].existing =
                               FindStep(procs[p].kind, store, procs[p].ticks[procs[p].i])]
  /\ UNCHANGED <<store, nextId, clock, op, inp, resp, out, err, calls, queries, pre,
               upserted, log>>

Write(p) ==
  /\ procs[p].pc = "write"
  /\ LET tick == procs[p].ticks[procs[p].i]
         w == WriteStep(procs[p].kind, store, nextId, procs[p].now, tick,
                        procs[p].existing)
     IN  /\ store' = w.store
         /\ nextId' = w.nextId
         /\ upserted' = upserted \cup {TickKey(tick)}
         /\ procs' = [procs EXCEPT
                        ![p].pc = IF procs[p].i = Len(procs[p].ticks) THEN "done"
                                  ELSE "find",
                        ![p].i = procs[p].i + 1,
                        ![p].existing = {}]
  /\ UNCHANGED <<clock, op, inp, resp, out, err, calls, queries, pre, log>>

EndRun(p) ==
  /\ procs[p].pc = "done"
  /\ procs' = [procs EXCEPT ![p] = Idle]
  /\ UNCHANGED <<store, nextId, clock, op, inp, resp, out, err, calls, queries, pre,
               upserted, log>>

NextConc == \E p \in Procs : StartRun(p) \/ Find(p) \/ Write(p) \/ EndRun(p)

SpecConc == Init /\ [][NextConc]_vars

(***************************************************************************)
(* batchFetchStocks step by step: every await of the handler is a step,    *)
(* and each call keeps the trace of the steps it has taken                 *)
(***************************************************************************)
\* a step of a call: the provider call for symbol k (n points returned), the
\* find or the write of point i of symbol k, the pause after symbol k
Step(ev, k, i, n) == [ev |-> ev, k |-> k, i |-> i, n |-> n]

BatchStepOutcomes ==
  {Failed, Returned(<<>>), Returned(<<Point(1, 1)>>),
   Returned(<<Point(1, 2), Point(2, 2)>>)}

\* a loop that leaves a symbol after the write of its first point
batchAfterWriteFirstOnly(pr) == [pr EXCEPT !.pc = "pause", !.existing = {}]

\* for (const tick of stockTicks): after the write of the last tick the
\* symbol's fetch returns and the batch loop awaits its delay
batchAfterWrite(pr) ==
  IF pr.i = Len(pr.ticks) THEN [pr EXCEPT !.pc = "pause", !.existing = {}]
  ELSE [pr EXCEPT !.pc = "find", !.i = pr.i + 1, !.existing = {}]

\* for (const symbol of input.symbols): the next symbol, or the end
batchNextSymbol(pr) ==
  IF pr.k = Len(pr.symbols) THEN [pr EXCEPT !.pc = "done"]
  ELSE [pr EXCEPT !.pc = "fetch", !.k = pr.k + 1, !.ticks = <<>>, !.i = 1]

\* await fetchStockDataForSymbol up to its first select: a provider call that
\* throws is caught by the batch loop, which goes on without the delay; one
\* that returns nothing returns [] and the delay follows
batchAfterFetch(pr, yahoo) ==
  IF ~yahoo.ok THEN batchNextSymbol(pr)
  ELSE IF Len(yahoo.data) = 0 THEN [pr EXCEPT !.pc = "pause"]
  ELSE [pr EXCEPT !.pc = "find", !.i = 1,
                  !.ticks = transformYahooData(yahoo.data, pr.symbols[pr.k], "1m")]

Traced(pr, step) == [pr EXCEPT !.trace = Append(pr.trace, step)]

BatchStart(p) ==
  \E symbols \in BatchSymbolLists :
    /\ procs[p].pc = "idle"
    /\ clock <= MaxRuns
    /\ procs' = [procs EXCEPT ![p] =
                   [pc |-> "fetch", kind |-> "batchFetchStocks", symbols |-> symbols,
                    k |-> 1, ticks |-> <<>>, i |-> 1, existing |-> {}, now |-> clock,
                    trace |-> <<>>]]
    /\ clock' = clock + 1
    /\ UNCHANGED <<store, nextId, op, inp, resp, out, err, calls, queries, pre,
                   upserted, log>>

BatchFetch(p) ==
  \E yahoo \in BatchStepOutcomes :
    /\ procs[p].pc = "fetch"
    /\ procs' = [procs EXCEPT ![p] =
                   Traced(batchAfterFetch(procs[p], yahoo),
                          Step("fetch", procs[p].k, 0, Len(yahoo.data)))]
    /\ UNCHANGED <<store, nextId, clock, op, inp, resp, out, err, calls, queries, pre,
                   upserted, log>>

BatchFind(p) ==
  /\ procs[p].pc = "find"
  /\ procs' = [procs EXCEPT ![p] =
                 Traced([procs[p] EXCEPT
                           !.pc = "write",
                           !.existing = FindStep("batchFetchStocks", store,
                                                 procs[p].ticks[procs[p].i])],
                        Step("find", procs[p].k, procs[p].i, 0))]
  /\ UNCHANGED <<store, nextId, clock, op, inp, resp, out, err, calls, queries, pre,
                 upserted, log>>

BatchWrite(p) ==
  /\ procs[p].pc = "write"
  /\ LET tick == procs[p].ticks[procs[p].i]
         w == WriteStep("batchFetchStocks", store, nextId, procs[p].now, tick,
                        procs[p].existing)
     IN  /\ store' = w.store
         /\ nextId' = w.nextId
         /\ upserted' = upserted \cup {TickKey(tick)}
  /\ procs' = [procs EXCEPT ![p] =
                 Traced(batchAfterWrite(procs[p]),
                        Step("write", procs[p].k, procs[p].i, 0))]
  /\ UNCHANGED <<clock, op, inp, resp, out, err, calls, queries, pre, log>>

\* await new Promise(resolve => setTimeout(resolve, 100))
BatchPause(p) ==
  /\ procs[p].pc = "pause"
  /\ procs' = [procs EXCEPT ![p] =
                 Traced(batchNextSymbol(procs[p]), Step("pause", procs[p].k, 0, 0))]
  /\ UNCHANGED <<store, nextId, clock, op, inp, resp, out, err, calls, queries, pre,
                 upserted, log>>

BatchEnd(p) ==
  /\ procs[p].pc = "done"
  /\ procs[p].kind = "batchFetchStocks"
  /\ procs' = [procs EXCEPT ![p] = Idle]
  /\ UNCHANGED <<store, nextId, clock, op, inp, resp, out, err, calls, queries, pre,
                 upserted, log>>

NextBatch ==
  \E p \in Procs :
    \/ BatchStart(p)
    \/ BatchFetch(p)
    \/ BatchFind(p)
    \/ BatchWrite(p)
    \/ BatchPause(p)
    \/ BatchEnd(p)

SpecBatch == Init /\ [][NextBatch]_vars

(***************************************************************************)
(* getChartData step by step: the first range query, the provider call,    *)
(* each insert of the fallback and the second range query are steps        *)
(***************************************************************************)
ChartStepOutcomes ==
  {Failed, Returned(<<Point(1, 1)>>), Returned(<<Point(1, 2), Point(2, 2)>>)}

ChartStart(p) ==
  /\ procs[p].pc = "idle"
  /\ clock <= MaxRuns
  /\ procs' = [procs EXCEPT ![p] =
                 [pc |-> "query", kind |-> "getChartData",
                  input |-> ChartInputOf("AAPL", "1m"), missed |-> FALSE,
                  ticks |-> <<>>, i |-> 1, now |-> clock]]
  /\ clock' = clock + 1
  /\ UNCHANGED <<store, nextId, op, inp, resp, out, err, calls, queries, pre,
                 upserted, log>>

\* const results = await db.select()...; if (results.length === 0 && input.symbol)
ChartQuery(p) ==
  /\ procs[p].pc = "query"
  /\ procs' = [procs EXCEPT
                 ![p].missed = ChartFallsBack(store, procs[p].input, "asc"),
                 ![p].pc = IF ChartFallsBack(store, procs[p].input, "asc")
                           THEN "provider" ELSE "done"]
  /\ UNCHANGED <<store, nextId, clock, op, inp, resp, out, err, calls, queries, pre,
                 upserted, log>>

\* await fetchFromYahooFinance(..); a throw goes to the inner catch
ChartProvider(p) ==
  \E yahoo \in ChartStepOutcomes :
    /\ procs[p].pc = "provider"
    /\ procs' = [procs EXCEPT
                   ![p].ticks = transformYahooData(yahoo.data, procs[p].input.symbol,
                                                   procs[p].input.interval),
                   ![p].pc = IF ~yahoo.ok THEN "done"
                             ELSE IF yahoo.data = <<>> THEN "requery"
                             ELSE "insert"]
    /\ UNCHANGED <<store, nextId, clock, op, inp, resp, out, err, calls, queries, pre,
                   upserted, log>>

\* await db.insert(stockTicksTable).values(tick).execute()
ChartInsert(p) ==
  /\ procs[p].pc = "insert"
  /\ store' = DbInsert(store, nextId, procs[p].now, procs[p].ticks[procs[p].i])
  /\ nextId' = nextId + 1
  /\ procs' = [procs EXCEPT
                 ![p].i = procs[p].i + 1,
                 ![p].pc = IF procs[p].i = Len(procs[p].ticks) THEN "requery"
                           ELSE "insert"]
  /\ UNCHANGED <<clock, op, inp, resp, out, err, calls, queries, pre, upserted, log>>

\* const newResults = await db.select()...
ChartRequery(p) ==
  /\ procs[p].pc = "requery"
  /\ procs' = [procs EXCEPT ![p].pc = "done"]
  /\ UNCHANGED <<store, nextId, clock, op, inp, resp, out, err, calls, queries, pre,
                 upserted, log>>

ChartEnd(p) ==
  /\ procs[p].pc = "done"
  /\ procs[p].kind = "getChartData"
  /\ procs' = [procs EXCEPT ![p] = Idle]
  /\ UNCHANGED <<store, nextId, clock, op, inp, resp, out, err, calls, queries, pre,
                 upserted, log>>

NextChartConc ==
  \E p \in Procs :
    \/ ChartStart(p)
    \/ ChartQuery(p)
    \/ ChartProvider(p)
    \/ ChartInsert(p)
    \/ ChartRequery(p)
    \/ ChartEnd(p)

SpecChartConc == Init /\ [][NextChartConc]_vars

(***************************************************************************)
(* Upserts of one stored key: a first call stores the key, then upsert     *)
(* runs with other price values interleave their find and write steps;     *)
(* log keeps the order in which the steps ran                              *)
(***************************************************************************)
StoredTick == RunTicks(<<Point(1, 1)>>)[1]

UpdateResponses == {<<Point(1, 2)>>, <<Point(1, 3)>>}

\* fetchStockData on the empty table, run to its end
StoreFirst ==
  /\ store = {}
  /\ LET u == fetchUpsertTick(store, nextId, clock, StoredTick)
     IN  /\ store' = u.store
         /\ nextId' = u.nextId
  /\ clock' = clock + 1
  /\ upserted' = upserted \cup {TickKey(StoredTick)}
  /\ UNCHANGED <<op, inp, resp, out, err, calls, queries, pre, procs, log>>

UpdateStart(p) ==
  \E kind \in Kinds, data \in UpdateResponses :
    /\ store # {}
    /\ procs[p].pc = "idle"
    /\ clock <= MaxRuns + 1
    /\ procs' = [procs EXCEPT ![p] =
                   [pc |-> "find", kind |-> kind, ticks |-> RunTicks(data),
                    i |-> 1, existing |-> {}, now |-> clock]]
    /\ clock' = clock + 1
    /\ UNCHANGED <<store, nextId, op, inp, resp, out, err, calls, queries, pre,
                   upserted, log>>

UpdateFind(p) ==
  /\ procs[p].pc = "find"
  /\ procs' = [procs EXCEPT ![p].pc = "write",
                            ![p].existing =
                               FindStep(procs[p].kind, store, procs[p].ticks[procs[p].i])]
  /\ log' = Append(log, [ev |-> "find", p |-> p, tick |-> procs[p].ticks[procs[p].i]])
  /\ UNCHANGED <<store, nextId, clock, op, inp, resp, out, err, calls, queries, pre,
                 upserted>>

UpdateWrite(p) ==
  /\ procs[p].pc = "write"
  /\ LET tick == procs[p].ticks[procs[p].i]
         w == WriteStep(procs[p].kind, store, nextId, procs[p].now, tick,
                        procs[p].existing)
     IN  /\ store' = w.store
         /\ nextId' = w.nextId
         /\ upserted' = upserted \cup {TickKey(tick)}
         /\ log' = Append(log, [ev |-> "write", p |-> p, tick |-> tick])
         /\ procs' = [procs EXCEPT
                        ![p].pc = IF procs[p].i = Len(procs[p].ticks) THEN "done"
                                  ELSE "find",
                        ![p].i = procs[p].i + 1,
                        ![p].existing = {}]
  /\ UNCHANGED <<clock, op, inp, resp, out, err, calls, queries, pre>>

UpdateEnd(p) ==
  /\ procs[p].pc = "done"
  /\ procs' = [procs EXCEPT ![p] = Idle]
  /\ UNCHANGED <<store, nextId, clock, op, inp, resp, out, err, calls, queries, pre,
                 upserted, log>>

NextUpdates ==
  \/ StoreFirst
  \/ \E p \in Procs : UpdateStart(p) \/ UpdateFind(p) \/ UpdateWrite(p) \/ UpdateEnd(p)

SpecUpdates == Init /\ [][NextUpdates]_vars

(***************************************************************************)
(* Queries issued while upsert loops run: a query is one select statement, *)
(* which the store runs between two steps of the loops                     *)
(***************************************************************************)
ReadInputs ==
  [symbol : {NoValue, "AAPL"}, interval : {"1m"}, startDate : {NoDate},
   endDate : {NoDate}, limit : {DefaultLimit}]

ReadHistoricalData ==
  \E input \in ReadInputs, tie \in Ties :
    Finish("getHistoricalData", input, NoResponse,
           [Outcome(store, nextId, getHistoricalData(store, input, tie), FALSE, <<>>)
              EXCEPT !.queries = 1],
           FALSE)

\* the provider is asked only on the fallback path, which is the sequence
\* select, provider call, inserts, select of one call
ReadChartData ==
  \E input \in ReadInputs, tie \in Ties, yahoo \in FaultyChartOutcomes :
    /\ ChartFallsBack(store, input, tie) => clock <= MaxCalls
    /\ Finish("getChartData", input,
              IF ChartFallsBack(store, input, tie) THEN yahoo ELSE NoResponse,
              getChartData(store, nextId, clock, input, yahoo, NoChartFaults, tie),
              ChartFallsBack(store, input, tie))

NextReaders ==
  \/ \E p \in Procs : StartRun(p) \/ Find(p) \/ Write(p) \/ EndRun(p)
  \/ ReadHistoricalData
  \/ GetLatestPricesStored
  \/ ReadChartData
  \/ Return

SpecReaders == Init /\ [][NextReaders]_vars


(***************************************************************************)
(* Properties                                                              *)
(***************************************************************************)
\* the rows of a table stored under a natural key
RowsOfKey(st, key) == {r \in st : KeyOf(r) = key}

SamePrices(r, tick) ==
  /\ r.open = tick.open
  /\ r.high = tick.high
  /\ r.low = tick.low
  /\ r.close = tick.close
  /\ r.volume = tick.volume

\* the ticks the finished call upserted, in the order it upserted them
RECURSIVE BatchCallTicks(_, _, _)
BatchCallTicks(symbols, interval, yahoos) ==
  IF symbols = <<>> THEN <<>>
  ELSE (IF Head(yahoos).ok
        THEN transformYahooData(Head(yahoos).data, Head(symbols), interval)
        ELSE <<>>)
       \o BatchCallTicks(Tail(symbols), interval, Tail(yahoos))

CallTicks ==
  IF op = "fetchStockData"
  THEN IF resp.ok THEN transformYahooData(resp.data, inp.symbol, inp.interval)
       ELSE <<>>
  ELSE IF op = "batchFetchStocks"
  THEN BatchCallTicks(inp.symbols, inp.interval, resp)
  ELSE <<>>

\* the last tick of a list written under a key
LastTickOfKey(ticks, key) ==
  ticks[CHOOSE i \in 1..Len(ticks) :
          /\ TickKey(ticks[i]) = key
          /\ \A j \in (i + 1)..Len(ticks) : TickKey(ticks[j]) # key]

AllIdle == \A p \in Procs : procs[p].pc = "idle"

\* C1: when concurrent upsert loops (find / insert / update steps interleaved)
\* have all ended, the table holds exactly one row per distinct natural key
\* among the upserted points.
C1_ConcurrentUpsertsOneRowPerKey ==
  AllIdle => Cardinality(store) = Cardinality(upserted)

\* C2: in every state reached by sequential caller-facing operations the
\* table holds at most one row per (symbol, timestamp, interval).
C2_NaturalKeyUnique ==
  \A r \in store : \A q \in store : KeyOf(r) = KeyOf(q) => r = q

\* C3: after a fetchStockData or batchFetchStocks call, every natural key it
\* upserted that had no row or one row before the call (the first and the
\* second upsert of the key) has exactly one row, and that row holds the
\* prices and volume of the last point upserted under the key.
C3_RepeatedUpsertOneRow ==
  op \in {"fetchStockData", "batchFetchStocks"} =>
    \A i \in 1..Len(CallTicks) :
      LET key == TickKey(CallTicks[i])
      IN  Cardinality(RowsOfKey(pre, key)) <= 1 =>
            /\ Cardinality(RowsOfKey(store, key)) = 1
            /\ \A r \in RowsOfKey(store, key) :
                 SamePrices(r, LastTickOfKey(CallTicks, key))

\* a second upsert of a stored key, with other prices, has run
C3_Witness ==
  /\ op \in {"fetchStockData", "batchFetchStocks"}
  /\ \E i \in 1..Len(CallTicks) :
       LET key == TickKey(CallTicks[i])
       IN  /\ Cardinality(RowsOfKey(pre, key)) = 1
           /\ \A r \in RowsOfKey(pre, key) : ~SamePrices(r, CallTicks[i])
           /\ Cardinality(RowsOfKey(store, key)) = 1
           /\ \A r \in RowsOfKey(store, key) : SamePrices(r, CallTicks[i])

\* C4: a call that upserts one point whose natural key is already stored
\* changes the prices and volume of one row of that key and nothing else:
\* that row keeps id, created_at, symbol, timestamp and interval, and every
\* other row of the table is as before.
C4_UpdateChangesOnlyFoundRow ==
  (/\ op \in {"fetchStockData", "batchFetchStocks"}
   /\ Len(CallTicks) = 1
   /\ RowsOfKey(pre, TickKey(CallTicks[1])) # {})
  => \E r \in RowsOfKey(pre, TickKey(CallTicks[1])) :
       \E u \in store :
         /\ u.id = r.id
         /\ u.created_at = r.created_at
         /\ KeyOf(u) = KeyOf(r)
         /\ SamePrices(u, CallTicks[1])
         /\ store \ {u} = pre \ {r}

\* the rows a range filter asks for: the symbol when one is given, the
\* column value of the requested interval, the inclusive date bounds
Wanted(st, input) ==
  {r \in st :
     /\ (input.symbol # NoValue => r.symbol = input.symbol)
     /\ r.interval = pgIntervalIn(input.interval)
     /\ (input.startDate # NoDate => r.timestamp >= input.startDate[1])
     /\ (input.endDate # NoDate => r.timestamp <= input.endDate[1])}

OutIds == {out[i].id : i \in 1..Len(out)}

\* C5: getHistoricalData returns only rows of the requested interval, of the
\* requested symbol when one is given, and inside the inclusive date bounds;
\* when at most limit rows qualify it returns every one of them.
C5_HistoryFilter ==
  op = "getHistoricalData" =>
    /\ \A i \in 1..Len(out) :
         \E r \in Wanted(store, inp) :
           /\ r.id = out[i].id
           /\ r.symbol = out[i].symbol
           /\ r.timestamp = out[i].timestamp
    /\ (Cardinality(Wanted(store, inp)) <= inp.limit =>
          OutIds = {r.id : r \in Wanted(store, inp)})

\* a query with a start date and no symbol returned rows of two symbols, one
\* of them lying on the bound, while the table holds an older row the filter
\* leaves out
C5_Witness ==
  /\ op = "getHistoricalData"
  /\ inp.symbol = NoValue
  /\ inp.startDate # NoDate
  /\ \E i, j \in 1..Len(out) :
       /\ out[i].symbol # out[j].symbol
       /\ out[i].timestamp = inp.startDate[1]
  /\ \E r \in store : r.timestamp < inp.startDate[1]

Min(a, b) == IF a <= b THEN a ELSE b

\* C6: the result of getHistoricalData is ordered by timestamp descending,
\* has min(limit, number of matching rows) rows, and no matching row left
\* out is newer than a returned row.
C6_HistoryNewestFirst ==
  op = "getHistoricalData" =>
    /\ \A i \in 1..(Len(out) - 1) : out[i].timestamp >= out[i + 1].timestamp
    /\ Len(out) = Min(inp.limit, Cardinality(Wanted(store, inp)))
    /\ Cardinality(OutIds) = Len(out)
    /\ \A r \in Wanted(store, inp) :
         r.id \notin OutIds => \A i \in 1..Len(out) : r.timestamp <= out[i].timestamp

\* the limit cut the result and an older matching row was left out
C6_Witness ==
  /\ op = "getHistoricalData"
  /\ Len(out) = inp.limit
  /\ \E r \in Wanted(store, inp) :
       r.id \notin OutIds /\ \E i \in 1..Len(out) : r.timestamp < out[i].timestamp

StoredSymbols(st) == {r.symbol : r \in st}

\* C7: getLatestPrices(false) returns exactly one row for each symbol that has
\* rows in the table, none for any other symbol, and the empty list on an
\* empty table. Stated for the tables that hold one row per natural key, so
\* that two rows of a symbol in the result are two different keys.
C7_LatestOneRowPerSymbol ==
  (/\ op = "getLatestPrices"
   /\ ~inp.fetchFresh
   /\ \A r \in store : \A q \in store : KeyOf(r) = KeyOf(q) => r = q) =>
    /\ \A s \in StoredSymbols(store) :
         Cardinality({i \in 1..Len(out) : out[i].symbol = s}) = 1
    /\ \A i \in 1..Len(out) : out[i].symbol \in StoredSymbols(store)
    /\ (store = {} => out = <<>>)

\* C8: every row returned by getLatestPrices is a stored row whose timestamp
\* is the greatest timestamp among the stored rows of its symbol, whatever
\* their interval, and it carries that row's prices and volume.
C8_LatestIsNewestStoredRow ==
  op = "getLatestPrices" =>
    \A i \in 1..Len(out) :
      \E r \in store :
        /\ r.id = out[i].id
        /\ r.symbol = out[i].symbol
        /\ r.timestamp = out[i].timestamp
        /\ SamePrices(r, out[i])
        /\ \A q \in store : q.symbol = r.symbol => q.timestamp <= r.timestamp

\* a returned row is newer than another stored row of its symbol that has
\* another interval
C8_Witness ==
  /\ op = "getLatestPrices"
  /\ \E i \in 1..Len(out) :
       \E q \in store :
         /\ q.symbol = out[i].symbol
         /\ q.timestamp < out[i].timestamp
         /\ q.interval # pgIntervalIn(out[i].interval)

\* C9: the rows returned by getLatestPrices are ordered by timestamp
\* descending.
C9_LatestNewestFirst ==
  op = "getLatestPrices" =>
    \A i \in 1..(Len(out) - 1) : out[i].timestamp >= out[i + 1].timestamp

\* rows of two symbols with different timestamps were returned
C9_Witness ==
  /\ op = "getLatestPrices"
  /\ Len(out) >= 2
  /\ out[1].timestamp > out[Len(out)].timestamp

\* C10: getLatestPrices(true) asks the provider once for each of the six
\* symbols in the order of the fixed list, whichever of the calls fail; the
\* call does not fail; and every point a call returned is stored before the
\* aggregation, so a row of its symbol with a timestamp at least the point's
\* is returned.
C10_RefreshSkipsFailedSymbols ==
  (op = "getLatestPrices" /\ inp.fetchFresh) =>
    /\ Len(calls) = Len(stockSymbolSchema)
    /\ \A k \in 1..Len(stockSymbolSchema) : calls[k].symbol = stockSymbolSchema[k]
    /\ ~err
    /\ \A s \in SYMBOLS : resp[s].ok =>
         \A k \in 1..Len(resp[s].data) :
           /\ \E r \in store :
                /\ r.symbol = s
                /\ r.timestamp = ToDate(resp[s].data[k].timestamp)
                /\ r.interval = pgIntervalIn("1m")
           /\ \E i \in 1..Len(out) :
                /\ out[i].symbol = s
                /\ out[i].timestamp >= ToDate(resp[s].data[k].timestamp)

\* a refresh in which a call failed, a later call returned a point, and the
\* row returned for that symbol is newer than the point
C10_Witness ==
  /\ op = "getLatestPrices" /\ inp.fetchFresh
  /\ ~resp["META"].ok
  /\ ~resp["GOOG"].ok
  /\ resp["NVDA"].ok
  /\ \E i \in 1..Len(out) :
       /\ out[i].symbol = "NVDA"
       /\ out[i].timestamp > ToDate(resp["NVDA"].data[1].timestamp)

\* C11: a batchFetchStocks call asks the provider for every symbol of its
\* input in input order, whichever of the calls fail or return nothing; it
\* returns normally; its result is, in input symbol order, one tick for each
\* point of the symbols that returned points, with the point's timestamp,
\* prices and volume; and each of those points is stored under its key.
C11_BatchSkipsFailedSymbols ==
  op = "batchFetchStocks" =>
    /\ ~err
    /\ Len(calls) = Len(inp.symbols)
    /\ \A k \in 1..Len(inp.symbols) : calls[k].symbol = inp.symbols[k]
    /\ Len(out) = Len(CallTicks)
    /\ \A i \in 1..Len(CallTicks) :
         /\ i <= Len(out)
         /\ out[i].symbol = CallTicks[i].symbol
         /\ out[i].timestamp = CallTicks[i].timestamp
         /\ SamePrices(out[i], CallTicks[i])
         /\ \E r \in store :
              KeyOf(r) = TickKey(CallTicks[i]) /\ SamePrices(r, CallTicks[i])

\* the provider failed for the first symbol of a batch and returned a point
\* for the second, whose tick is the whole result
C11_Witness ==
  /\ op = "batchFetchStocks"
  /\ Len(inp.symbols) = 2
  /\ ~resp[1].ok
  /\ resp[2].ok
  /\ Len(resp[2].data) = 1
  /\ Len(out) = 1
  /\ out[1].symbol = inp.symbols[2]
  /\ \A r \in pre : r.symbol # inp.symbols[2]

\* the fetches of the finished call, in the order the handler makes them
Fetches ==
  IF op = "fetchStockData"
  THEN <<[symbol |-> inp.symbol, interval |-> inp.interval, yahoo |-> resp]>>
  ELSE IF op = "batchFetchStocks"
  THEN [k \in 1..Len(inp.symbols) |->
          [symbol |-> inp.symbols[k], interval |-> inp.interval, yahoo |-> resp[k]]]
  ELSE IF op = "getLatestPrices" /\ inp.fetchFresh
  THEN [k \in 1..Len(stockSymbolSchema) |->
          [symbol |-> stockSymbolSchema[k], interval |-> "1m",
           yahoo |-> resp[stockSymbolSchema[k]]]]
  ELSE <<>>

\* the ticks the call hands to its upsert passes, in order
RECURSIVE UpsertList(_)
UpsertList(fetches) ==
  IF fetches = <<>> THEN <<>>
  ELSE (IF Head(fetches).yahoo.ok
        THEN transformYahooData(Head(fetches).yahoo.data, Head(fetches).symbol,
                                Head(fetches).interval)
        ELSE <<>>)
       \o UpsertList(Tail(fetches))

\* what the write of each of those ticks meets
RECURSIVE UpsertFaults(_)
UpsertFaults(fetches) ==
  IF fetches = <<>> THEN <<>>
  ELSE (IF Head(fetches).yahoo.ok
        THEN PadFaults(Head(fetches).yahoo.faults, Len(Head(fetches).yahoo.data))
        ELSE <<>>)
       \o UpsertFaults(Tail(fetches))

\* C12: when the only failures a fetchStockData, batchFetchStocks or
\* getLatestPrices(true) call meets while upserting are failures of single
\* points, the call returns normally and every point whose write did not
\* fail is stored with its prices and volume.
C12_RowFailureSkipped ==
  LET ticks == UpsertList(Fetches)
      faults == UpsertFaults(Fetches)
  IN  (/\ \E i \in 1..Len(faults) : faults[i] = "row"
       /\ \A i \in 1..Len(faults) : faults[i] \in {"none", "row"})
      => /\ ~err
         /\ \A i \in 1..Len(ticks) :
              faults[i] = "none" =>
                \E r \in store :
                  KeyOf(r) = TickKey(ticks[i]) /\ SamePrices(r, ticks[i])

\* C13: when the first failure a fetchStockData, batchFetchStocks or
\* getLatestPrices(true) call meets while upserting is a failure of the
\* store, the call ends with an error and the rows of the keys of that point
\* and of every later point of the list are as they were before the call.
C13_StoreFailureAborts ==
  LET ticks == UpsertList(Fetches)
      faults == UpsertFaults(Fetches)
  IN  \A k \in 1..Len(faults) :
        (faults[k] = "store" /\ \A j \in 1..(k - 1) : faults[j] = "none")
        => /\ err
           /\ \A i \in k..Len(ticks) :
                RowsOfKey(store, TickKey(ticks[i])) = RowsOfKey(pre, TickKey(ticks[i]))

\* the range query of the finished getChartData call found no row before the
\* call, and a symbol was asked for
ChartMiss == inp.symbol # NoValue /\ Wanted(pre, inp) = {}

\* C14 as stated: on a miss a getChartData call makes one provider call and
\* runs its range query a second time; otherwise it makes no provider call
\* and runs the range query once.
C14_RequeryOnEveryMiss ==
  op = "getChartData" =>
    IF ChartMiss THEN Len(calls) = 1 /\ queries = 2
    ELSE Len(calls) = 0 /\ queries = 1

\* C14, amended: on a miss a getChartData call makes one provider call, for
\* the symbol and interval asked for, and runs its range query a second time
\* if the provider call returns and not again if it throws; otherwise it
\* makes no provider call and runs the range query once.
C14_ChartFallbackOnce ==
  op = "getChartData" =>
    IF ChartMiss
    THEN /\ Len(calls) = 1
         /\ calls[1].symbol = inp.symbol
         /\ calls[1].interval = inp.interval
         /\ queries = IF resp.ok THEN 2 ELSE 1
    ELSE Len(calls) = 0 /\ queries = 1

\* a miss on a table that holds rows outside the filter, answered by the
\* provider and by the second range query
C14_Witness ==
  /\ op = "getChartData"
  /\ ChartMiss
  /\ pre # {}
  /\ resp.ok
  /\ Len(calls) = 1
  /\ queries = 2
  /\ Len(out.data) > 0

\* a tick or row as a chart point: timestamp, prices and volume
Candle(t) ==
  [timestamp |-> t.timestamp, open |-> t.open, high |-> t.high, low |-> t.low,
   close |-> t.close, volume |-> t.volume]

Candles(ticks) == [i \in 1..Len(ticks) |-> Candle(ticks[i])]

\* C15: a getChartData call for a symbol with no matching stored row either
\* returns a non-empty point list every point of which is a stored row that
\* getHistoricalData with the same filter returns afterwards, or returns the
\* empty list and the provider returned no point (or failed).
C15_ChartFallbackStored ==
  (op = "getChartData" /\ ChartMiss) =>
    \/ /\ Len(out.data) > 0
       /\ \A i \in 1..Len(out.data) :
            /\ \E r \in Wanted(store, inp) : Candle(r) = out.data[i]
            /\ \A tie \in Ties :
                 \E j \in 1..Len(getHistoricalData(store, inp, tie)) :
                   Candle(getHistoricalData(store, inp, tie)[j]) = out.data[i]
    \/ /\ out.data = <<>>
       /\ (~resp.ok \/ resp.data = <<>>)

\* C16: when the range query of a getChartData call finds a row, the point
\* list it returns is the result of getHistoricalData for the same filter on
\* the same table, projected to timestamp, prices and volume: for one of the
\* orders the store may give rows of equal timestamp, and for each of them
\* when no two matching rows have the same timestamp.
C16_ChartEqualsHistory ==
  (op = "getChartData" /\ Wanted(pre, inp) # {}) =>
    /\ store = pre
    /\ \E tie \in Ties : out.data = Candles(getHistoricalData(store, inp, tie))
    /\ (\A r, q \in Wanted(store, inp) : r.timestamp = q.timestamp => r = q)
         => \A tie \in Ties : out.data = Candles(getHistoricalData(store, inp, tie))

\* a chart of two stored rows of interval 1h, which the two handlers name by
\* different literals
C16_Witness ==
  /\ op = "getChartData"
  /\ inp.interval = "1h"
  /\ Cardinality(Wanted(pre, inp)) >= 2
  /\ Len(out.data) >= 2
  /\ out.data[1].timestamp > out.data[2].timestamp
  /\ out.data[1].close # out.data[1].open

\* the token a returned tick list was asked for
TokenRequested == {"fetchStockData", "batchFetchStocks", "getHistoricalData"}

\* C17: every tick returned by fetchStockData, batchFetchStocks,
\* getHistoricalData and getLatestPrices carries as interval one of the
\* thirteen logical tokens, and the token the call named when that token is
\* neither 60m nor 1h.
C17_ReturnedIntervalIsToken ==
  (op \in TokenRequested \cup {"getLatestPrices"} /\ ~err) =>
    \A i \in 1..Len(out) :
      /\ out[i].interval \in intervalSchema
      /\ (op \in TokenRequested /\ inp.interval \notin {"60m", "1h"})
           => out[i].interval = inp.interval

\* C20: a fetchStockData call whose provider call fails or returns no point
\* ends with an error and leaves the table as it was.
C20_FetchProviderFailureFatal ==
  (op = "fetchStockData" /\ (~resp.ok \/ resp.data = <<>>)) =>
    err /\ store = pre

\* C18: for every token other than 60m and 1h, each decode table applied to
\* what an encode table makes of the token gives the token back.
C18_DecodeEncode ==
  (/\ op = "decode"
   /\ ~inp.stored
   /\ inp.token \in intervalSchema \ {"60m", "1h"}) =>
    out = inp.token

\* the answer to a request that was rejected before its handler ran: a
\* validation error, no statement on the table, no provider call, the table
\* as before
RejectedUntouched ==
  /\ err
  /\ out = BadRequest
  /\ queries = 0
  /\ calls = <<>>
  /\ store = pre

\* C19: a request that names a symbol outside the six symbols, a limit
\* outside 1..1000 or a batch list of no or more than six symbols is answered
\* with a validation error, and no statement runs on the table while it is
\* handled.
C19_InvalidRequestRejected ==
  /\ (op = "fetchStockData" /\ inp.symbol \notin SYMBOLS) => RejectedUntouched
  /\ (/\ op \in {"getHistoricalData", "getChartData"}
      /\ \/ inp.symbol \notin SYMBOLS \cup {NoValue}
         \/ inp.limit # NoLimit /\ inp.limit[1] \notin 1..1000)
     => RejectedUntouched
  /\ (/\ op = "batchFetchStocks"
      /\ \/ Len(inp.symbols) \notin 1..6
         \/ \E k \in 1..Len(inp.symbols) : inp.symbols[k] \notin SYMBOLS)
     => RejectedUntouched

\* a range query with limit 1001 was rejected on a table that holds rows
C19_Witness ==
  /\ op = "getHistoricalData"
  /\ inp.symbol = "AAPL"
  /\ inp.limit = <<1001>>
  /\ store # {}
  /\ RejectedUntouched

\* the symbols a finished fetchStockData or batchFetchStocks call asked for
RequestedSymbols ==
  IF op = "fetchStockData" THEN {inp.symbol}
  ELSE {inp.symbols[k] : k \in 1..Len(inp.symbols)}

RowsOfSymbols(st, symbols) == {r \in st : r.symbol \in symbols}

\* a fetchStockData or batchFetchStocks call returned, and the table held no
\* row of the symbols it asked for
FetchedOnFreshSymbols ==
  /\ op \in {"fetchStockData", "batchFetchStocks"}
  /\ ~err
  /\ RowsOfSymbols(pre, RequestedSymbols) = {}

\* C22 as stated: after such a call the table holds as many rows of the
\* requested symbols as the call returned ticks.
C22_RowsEqualReturnedTicks ==
  FetchedOnFreshSymbols =>
    Cardinality(RowsOfSymbols(store, RequestedSymbols)) = Len(out)

\* C22, amended: after such a call the table holds one row of the requested
\* symbols for each distinct (symbol, timestamp) among the ticks the call
\* returned, which is the number of returned ticks when the provider's points
\* for a symbol have distinct timestamps.
C22_RowsEqualReturnedKeys ==
  FetchedOnFreshSymbols =>
    /\ Cardinality(RowsOfSymbols(store, RequestedSymbols))
         = Cardinality({<<out[i].symbol, out[i].timestamp>> : i \in 1..Len(out)})
    /\ (\A i, j \in 1..Len(CallTicks) :
          TickKey(CallTicks[i]) = TickKey(CallTicks[j]) => i = j)
         => Cardinality(RowsOfSymbols(store, RequestedSymbols)) = Len(out)

\* a call on a table that holds rows of another symbol only returned two
\* ticks of one timestamp and left one row
C22_Witness ==
  /\ FetchedOnFreshSymbols
  /\ pre # {}
  /\ Len(out) = 2
  /\ out[1].timestamp = out[2].timestamp
  /\ Cardinality(RowsOfSymbols(store, RequestedSymbols)) = 1

\* C23: a getChartData call without a symbol, when no row matches, answers
\* with the symbol AAPL, the interval asked for and no point; when rows
\* match, it answers with the symbol of the first row of the result, a newest
\* matching row, and the interval asked for.
C23_ChartSymbolWhenNoneGiven ==
  (op = "getChartData" /\ inp.symbol = NoValue) =>
    /\ ~err
    /\ out.interval = inp.interval
    /\ IF Wanted(pre, inp) = {}
       THEN out.symbol = "AAPL" /\ out.data = <<>>
       ELSE /\ Len(out.data) > 0
            /\ \E r \in Wanted(pre, inp) :
                 /\ r.symbol = out.symbol
                 /\ Candle(r) = out.data[1]
                 /\ \A q \in Wanted(pre, inp) : q.timestamp <= r.timestamp

\* a chart without a symbol whose newest matching row is a META row, with an
\* older AAPL row in the result
C23_Witness ==
  /\ op = "getChartData"
  /\ inp.symbol = NoValue
  /\ out.symbol = "META"
  /\ Len(out.data) >= 2
  /\ \E r \in Wanted(pre, inp) :
       r.symbol = "AAPL" /\ r.timestamp < out.data[1].timestamp

\* C25: 60m and 1h reach the interval column as one value, whichever table
\* encodes them, and every table that decodes that value gives the same
\* token.
C25_HourTokensOneCanonical ==
  (op = "decode" /\ inp.stored /\ inp.token \in {"60m", "1h"}) =>
    /\ pgIntervalIn(encode(inp.encoder, "60m")) = pgIntervalIn(encode(inp.encoder, "1h"))
    /\ \A decoder \in Decoders :
         decode(decoder, pgIntervalIn(encode(inp.encoder, inp.token))) = out

WrittenTicks ==
  IF op = "getChartData"
  THEN IF ChartMiss /\ resp.ok
       THEN transformYahooData(resp.data, inp.symbol, inp.interval)
       ELSE <<>>
  ELSE IF err THEN <<>>
  ELSE UpsertList(Fetches)

\* getHistoricalData(symbol, interval) with no date window and the default
\* limit finds a row with the tick's timestamp
FoundByHistory(st, tick) ==
  \A tie \in Ties :
    LET found == getHistoricalData(st, ChartInputOf(tick.symbol, tick.interval), tie)
    IN  \E j \in 1..Len(found) :
          found[j].symbol = tick.symbol /\ found[j].timestamp = tick.timestamp

ChartInsertFaults == PadFaults(resp.faults.inserts, Len(resp.data))

\* a statement the finished getChartData call ran met a failure of the store:
\* the first range query, or, when the fallback ran and the provider
\* returned, an insert or the second range query
ChartStoreFailure ==
  /\ op = "getChartData"
  /\ \/ resp.faults.first = "store"
     \/ /\ ChartMiss
        /\ resp.ok
        /\ \/ \E i \in 1..Len(resp.data) : ChartInsertFaults[i] = "store"
           \/ resp.faults.requery = "store"

\* C28: a getChartData call that meets a failure of the store in its first
\* range query, in an insert of the fallback or in the second range query ends
\* with an error and not with a response.
C28_ChartStoreFailurePropagates ==
  ChartStoreFailure => err

\* the step is a getHistoricalData call, a getLatestPrices(false) call, or a
\* getChartData call other than one for a symbol whose range query finds no
\* row
ReadOnlyCall ==
  /\ op = "idle"
  /\ \/ op' = "getHistoricalData"
     \/ op' = "getLatestPrices" /\ ~inp'.fetchFresh
     \/ op' = "getChartData" /\ ~(inp'.symbol # NoValue /\ Wanted(store, inp') = {})

\* C21: a getHistoricalData call, a getLatestPrices(false) call and a
\* getChartData call that is given no symbol or whose range query finds a row
\* leave the table as it is, rows and field values, and the serial counter
\* too, also when upsert loops are between two of their steps.
C21_QueriesLeaveStore ==
  [][ReadOnlyCall => (store' = store /\ nextId' = nextId)]_vars

\* a query returned rows while an upsert loop had found its row and not yet
\* written it
C21_Witness ==
  /\ op \in {"getHistoricalData", "getLatestPrices", "getChartData"}
  /\ op = "getLatestPrices" => ~inp.fetchFresh
  /\ \E p \in Procs : procs[p].pc = "write" /\ procs[p].existing # {}
  /\ store = pre
  /\ store # {}
  /\ queries = 1

\* the trace of a call is in order: the provider call for a symbol comes
\* after the provider call of the symbol before it and after the write of
\* each point that call returned; the find of a point comes after the
\* provider call of its symbol and after the write of the point before it;
\* the write of a point comes after its find
TraceInOrder(trace) ==
  \A b \in 1..Len(trace) :
    LET s == trace[b]
        Earlier(ev, k, i) ==
          \E a \in 1..(b - 1) : trace[a].ev = ev /\ trace[a].k = k /\ trace[a].i = i
    IN  /\ (s.ev = "fetch" /\ s.k > 1) =>
              /\ Earlier("fetch", s.k - 1, 0)
              /\ \A a \in 1..(b - 1) :
                   (trace[a].ev = "fetch" /\ trace[a].k = s.k - 1) =>
                     \A i \in 1..trace[a].n : Earlier("write", s.k - 1, i)
        /\ (s.ev = "fetch" /\ s.k = 1) => b = 1
        /\ s.ev = "find" =>
              /\ Earlier("fetch", s.k, 0)
              /\ s.i > 1 => Earlier("write", s.k, s.i - 1)
        /\ s.ev = "write" => trace[b - 1] = Step("find", s.k, s.i, 0)
        /\ \A a \in 1..(b - 1) : trace[a] # s

BatchCalls == {p \in Procs : procs[p].pc # "idle" /\ procs[p].kind = "batchFetchStocks"}

\* C27: in a batchFetchStocks call the provider is asked for the symbols in
\* input order, the call for a symbol after every point of the symbol before
\* it is written; the points of a symbol are upserted in the provider's
\* order, each write following its find with no other step of the call in
\* between and each find following the write of the point before.
C27_BatchStepsInOrder ==
  \A p \in BatchCalls :
    /\ TraceInOrder(procs[p].trace)
    /\ \A b \in 1..Len(procs[p].trace) : procs[p].trace[b].k <= Len(procs[p].symbols)
    /\ procs[p].pc = "done" =>
         \A k \in 1..Len(procs[p].symbols) :
           \E b \in 1..Len(procs[p].trace) :
             procs[p].trace[b].ev = "fetch" /\ procs[p].trace[b].k = k

\* a call for two symbols whose first provider call returned two points has
\* written both and asked for the second symbol, while another call is
\* under way
C27_Witness ==
  \E p \in BatchCalls :
    /\ Len(procs[p].symbols) = 2
    /\ \E b \in 1..Len(procs[p].trace) :
         /\ procs[p].trace[b] = Step("fetch", 2, 0, 1)
         /\ procs[p].trace[1] = Step("fetch", 1, 0, 2)
         /\ procs[p].trace[b - 2] = Step("write", 1, 2, 0)
    /\ \E q \in BatchCalls : q # p /\ Len(procs[q].trace) > 0

\* C29: when two getChartData calls for one symbol and interval have both
\* found no row and have both ended, the table holds at most one row for
\* each (symbol, timestamp, interval).
C29_ConcurrentFallbacksOneRowPerKey ==
  (\A p \in Procs :
     /\ procs[p].pc = "done"
     /\ procs[p].kind = "getChartData"
     /\ procs[p].missed)
  => \A r \in store : Cardinality(RowsOfKey(store, KeyOf(r))) <= 1

\* the row holds the five price fields of the tick
PricesFrom(r, tick) ==
  /\ r.open = tick.open
  /\ r.high = tick.high
  /\ r.low = tick.low
  /\ r.close = tick.close
  /\ r.volume = tick.volume

WriteSteps == {i \in 1..Len(log) : log[i].ev = "write"}

LastWrite == log[CHOOSE i \in WriteSteps : \A j \in WriteSteps : j <= i]

\* C30: among upserts of one stored key that run concurrently with different
\* price values, the row's open, high, low, close and volume always come
\* from one tick (the stored one or one of the upserts'), and once every
\* upsert has ended they are those of the upsert whose write ran last.
C30_LastUpdateWins ==
  /\ \A r \in store :
       \E t \in {StoredTick} \cup {log[i].tick : i \in WriteSteps} : PricesFrom(r, t)
  /\ ((\A p \in Procs : procs[p].pc = "idle") /\ WriteSteps # {})
     => \A r \in RowsOfKey(store, TickKey(StoredTick)) : PricesFrom(r, LastWrite.tick)

\* two upserts with different values both found the row before either wrote
C30_Witness ==
  /\ \A p \in Procs : procs[p].pc = "idle"
  /\ Len(log) = 4
  /\ log[1].ev = "find" /\ log[2].ev = "find"
  /\ log[3].ev = "write" /\ log[4].ev = "write"
  /\ log[1].p # log[2].p
  /\ log[3].tick # log[4].tick
  /\ \E r \in store : PricesFrom(r, log[4].tick)

====
